---- MODULE Spec2Model ----
(***************************************************************************)
(* Verification model of the bby chess engine core: the Position           *)
(* (board.cpp) with FEN I/O, make/unmake and legal move generation, and    *)
(* the iterative-deepening search driver (search.cpp) with its cooperative *)
(* stop / time protocol.                                                   *)
(*                                                                         *)
(* Representation choices:                                                 *)
(*  - a Bitboard (uint64) is the set of the squares whose bit is set;      *)
(*    shifts map squares and drop those that leave 0..63;                  *)
(*  - a Zobrist value is the XOR of table keys; the tables are filled by   *)
(*    consecutive splitmix64 outputs, and a key is named by its ordinal in *)
(*    that generation order.  A 64-bit value is then the set of the keys   *)
(*    XORed an odd number of times, and XOR is symmetric difference;       *)
(*  - a FEN string is a sequence of one-character strings.                 *)
(***************************************************************************)
EXTENDS Integers, Sequences, FiniteSets, TLC

(***************************************************************************)
(* common.h: primitive types.                                              *)
(***************************************************************************)
White == 0
Black == 1
Colors == {White, Black}

flip(c) == IF c = White THEN Black ELSE White

color_index(c) == IF c = White THEN 0 ELSE 1

SquareNone == 64
Squares == 0 .. 63

make_square(file, rank) == rank * 8 + file

FileInvalid == 8
RankInvalid == 8

file_of(sq) == IF sq = SquareNone THEN FileInvalid ELSE sq % 8

rank_of(sq) == IF sq = SquareNone THEN RankInvalid ELSE sq \div 8

bit(sq) == IF sq = SquareNone THEN {} ELSE {sq}

Pawn == 0
Knight == 1
Bishop == 2
Rook == 3
Queen == 4
King == 5
PieceTypeNone == 6

PieceNone == 0
WPawn == 1
WKing == 6
BPawn == 7
BKing == 12

make_piece(c, pt) ==
  IF pt = PieceTypeNone THEN PieceNone
  ELSE (IF color_index(c) = 0 THEN WPawn ELSE BPawn) + pt

color_of(pc) ==
  IF pc = PieceNone THEN White
  ELSE IF pc < BPawn THEN White ELSE Black

type_of(pc) == IF pc = PieceNone THEN PieceTypeNone ELSE (pc - 1) % 6

Quiet == 0
DoublePush == 1
KingCastle == 2
QueenCastle == 3
Capture == 4
EnPassant == 5
Promotion == 6
PromotionCapture == 7

GenCaptures == 0
GenQuiets == 1
GenAll == 2

\* Move: from[0..5], to[6..11], promotion kind[12..15], flag[16..19].
make_move(from, to, flag, promotion) ==
  from + to * 64 + promotion * 4096 + flag * 65536

from_square(m) == m % 64

to_square(m) == (m \div 64) % 64

promotion_type(m) == (m \div 4096) % 16

move_flag(m) == (m \div 65536) % 16

(***************************************************************************)
(* board.h / board.cpp: constants and bitboard helpers.                    *)
(***************************************************************************)
CastleNone == 0
CastleWK == 1
CastleWQ == 2
CastleBK == 4
CastleBQ == 8

\* (rights & mask) != 0 for a one-bit mask.
HasRight(rights, mask) == (rights \div mask) % 2 = 1

\* rights & ~mask for a mask of castling bits (mask in 0..15).
ClearRights(rights, mask) ==
  rights - (IF HasRight(rights, 1) /\ HasRight(mask, 1) THEN 1 ELSE 0)
         - (IF HasRight(rights, 2) /\ HasRight(mask, 2) THEN 2 ELSE 0)
         - (IF HasRight(rights, 4) /\ HasRight(mask, 4) THEN 4 ELSE 0)
         - (IF HasRight(rights, 8) /\ HasRight(mask, 8) THEN 8 ELSE 0)

\* rights | mask for a one-bit mask.
SetRight(rights, mask) == IF HasRight(rights, mask) THEN rights ELSE rights + mask

A1 == 0
H1 == 7
A8 == 56
H8 == 63

\* kCastlingClear as it would be without the corners of Black.
kCastlingClearWhiteOnly(sq) ==
  IF sq = A1 THEN CastleWQ
  ELSE IF sq = H1 THEN CastleWK
  ELSE 0

kCastlingClear(sq) ==
  IF sq = A1 THEN CastleWQ
  ELSE IF sq = H1 THEN CastleWK
  ELSE IF sq = A8 THEN CastleBQ
  ELSE IF sq = H8 THEN CastleBK
  ELSE 0

kFileA == {s \in Squares : s % 8 = 0}
kFileH == {s \in Squares : s % 8 = 7}

kRank(r) == {s \in Squares : s \div 8 = r}

\* bb << n and bb >> n on 64 bits.
Shl(bb, n) == {s + n : s \in {x \in bb : x + n <= 63}}

Shr(bb, n) == {s - n : s \in {x \in bb : x - n >= 0}}

north(bb) == Shl(bb, 8)

south(bb) == Shr(bb, 8)

north_east(bb) == Shl(bb, 9) \ kFileA

north_west(bb) == Shl(bb, 7) \ kFileH

south_east(bb) == Shr(bb, 7) \ kFileA

south_west(bb) == Shr(bb, 9) \ kFileH

on_board(file, rank) == file >= 0 /\ file < 8 /\ rank >= 0 /\ rank < 8

pawn_single_pushes(side, pawns, empty) ==
  IF side = White THEN north(pawns) \cap empty ELSE south(pawns) \cap empty

pawn_double_pushes(side, pawns, empty) ==
  IF pawns = {} THEN {}
  ELSE LET first == pawn_single_pushes(side, pawns, empty)
       IN IF first = {} THEN {} ELSE pawn_single_pushes(side, first, empty)

\* The members of a finite set of integers in ascending order.
Ascending(ints) ==
  [i \in 1 .. Cardinality(ints) |->
     CHOOSE n \in ints : Cardinality({lower \in ints : lower < n}) = i - 1]

\* The loop `while (bb) { sq = ctz(bb); bb &= bb - 1; ... }`: the squares of
\* a bitboard in ascending order.
BitScan(bb) == Ascending(bb)

RECURSIVE FlattenFrom(_, _)
FlattenFrom(seqs, i) ==
  IF i > Len(seqs) THEN <<>> ELSE seqs[i] \o FlattenFrom(seqs, i + 1)

\* The moves of consecutive loop iterations, in emission order.
Flatten(seqs) == FlattenFrom(seqs, 1)

Sign(x) == IF x > 0 THEN 1 ELSE IF x < 0 THEN -1 ELSE 0

Abs(x) == IF x < 0 THEN -x ELSE x

RECURSIVE BetweenWalk(_, _, _, _, _, _)
BetweenWalk(file, rank, file_b, rank_b, step_file, step_rank) ==
  IF file = file_b /\ rank = rank_b THEN {}
  ELSE {rank * 8 + file} \cup
       BetweenWalk(file + step_file, rank + step_rank, file_b, rank_b,
                   step_file, step_rank)

between_squares(a, b) ==
  LET file_a == file_of(a)
      rank_a == rank_of(a)
      file_b == file_of(b)
      rank_b == rank_of(b)
      df == file_b - file_a
      dr == rank_b - rank_a
  IN IF df = 0 /\ dr = 0 THEN {}
     ELSE IF df = 0 \/ dr = 0 \/ Abs(df) = Abs(dr)
          THEN (BetweenWalk(file_a + Sign(df), rank_a + Sign(dr), file_b, rank_b,
                            Sign(df), Sign(dr)) \ bit(a)) \ bit(b)
          ELSE {}

(***************************************************************************)
(* attacks.cpp: leaper tables and slider attacks.                          *)
(***************************************************************************)
KnightOffsets ==
  {<<1, 2>>, <<2, 1>>, <<2, -1>>, <<1, -2>>,
   <<-1, -2>>, <<-2, -1>>, <<-2, 1>>, <<-1, 2>>}

kKnightAttacks ==
  [sq \in Squares |->
     {((sq \div 8) + o[2]) * 8 + ((sq % 8) + o[1]) :
        o \in {p \in KnightOffsets : on_board((sq % 8) + p[1], (sq \div 8) + p[2])}}]

KingOffsets == {<<df, dr>> : df \in -1 .. 1, dr \in -1 .. 1} \ {<<0, 0>>}

kKingAttacks ==
  [sq \in Squares |->
     {((sq \div 8) + o[2]) * 8 + ((sq % 8) + o[1]) :
        o \in {p \in KingOffsets : on_board((sq % 8) + p[1], (sq \div 8) + p[2])}}]

kWhitePawnAttacks == [sq \in Squares |-> north_east({sq}) \cup north_west({sq})]

kBlackPawnAttacks == [sq \in Squares |-> south_east({sq}) \cup south_west({sq})]

knight_attacks(sq) == kKnightAttacks[sq]

king_attacks(sq) == kKingAttacks[sq]

pawn_attacks(color, sq) ==
  IF color = White THEN kWhitePawnAttacks[sq] ELSE kBlackPawnAttacks[sq]

\* One `for` loop of the on-the-fly scanners: walk outward, include each
\* square, stop after the first occupied one.
RECURSIVE RayAttack(_, _, _, _, _)
RayAttack(nf, nr, df, dr, occ) ==
  IF ~on_board(nf, nr) THEN {}
  ELSE LET target == nr * 8 + nf
       IN IF target \in occ THEN {target}
          ELSE {target} \cup RayAttack(nf + df, nr + dr, df, dr, occ)

bishop_attacks_on_the_fly(sq, occ) ==
  LET file == file_of(sq)
      rank == rank_of(sq)
  IN RayAttack(file + 1, rank + 1, 1, 1, occ) \cup
     RayAttack(file - 1, rank + 1, -1, 1, occ) \cup
     RayAttack(file + 1, rank - 1, 1, -1, occ) \cup
     RayAttack(file - 1, rank - 1, -1, -1, occ)

rook_attacks_on_the_fly(sq, occ) ==
  LET file == file_of(sq)
      rank == rank_of(sq)
  IN RayAttack(file + 1, rank, 1, 0, occ) \cup
     RayAttack(file - 1, rank, -1, 0, occ) \cup
     RayAttack(file, rank + 1, 0, 1, occ) \cup
     RayAttack(file, rank - 1, 0, -1, occ)

\* Relevance masks: the ray squares short of the board edge.
RECURSIVE MaskWalk(_, _, _, _)
MaskWalk(nf, nr, df, dr) ==
  IF (df > 0 /\ nf > 6) \/ (df < 0 /\ nf < 1) \/ (dr > 0 /\ nr > 6) \/ (dr < 0 /\ nr < 1)
  THEN {}
  ELSE {nr * 8 + nf} \cup MaskWalk(nf + df, nr + dr, df, dr)

mask_bishop ==
  [sq \in Squares |->
     MaskWalk((sq % 8) + 1, (sq \div 8) + 1, 1, 1) \cup
     MaskWalk((sq % 8) - 1, (sq \div 8) + 1, -1, 1) \cup
     MaskWalk((sq % 8) + 1, (sq \div 8) - 1, 1, -1) \cup
     MaskWalk((sq % 8) - 1, (sq \div 8) - 1, -1, -1)]

mask_rook ==
  [sq \in Squares |->
     MaskWalk((sq % 8) + 1, sq \div 8, 1, 0) \cup
     MaskWalk((sq % 8) - 1, sq \div 8, -1, 0) \cup
     MaskWalk(sq % 8, (sq \div 8) + 1, 0, 1) \cup
     MaskWalk(sq % 8, (sq \div 8) - 1, 0, -1)]

\* The table lookup: the entry keyed by the occupancy restricted to the
\* relevance mask, which build_*_tables filled with the on-the-fly scan of
\* that restricted occupancy.
rook_attacks(sq, occ) == rook_attacks_on_the_fly(sq, occ \cap mask_rook[sq])

bishop_attacks(sq, occ) == bishop_attacks_on_the_fly(sq, occ \cap mask_bishop[sq])

(***************************************************************************)
(* board.cpp: Zobrist tables.  zobrist_tables() draws the keys from one    *)
(* splitmix64 stream in a fixed order: piece[2][6][64], castling[16],      *)
(* ep[8], side.  A key is its ordinal in that order.                       *)
(***************************************************************************)
ZPiece(color, type, sq) == color * 384 + type * 64 + sq

ZCastling(rights) == 768 + rights

ZEp(file) == 784 + file

ZSide == 792

\* a ^ b on Zobrist values and on bitboards.
Xor(a, b) == (a \ b) \cup (b \ a)

(***************************************************************************)
(* board.cpp: Position.                                                    *)
(***************************************************************************)
\* Position::clear
clear ==
  [squares |-> [s \in Squares |-> PieceNone],
   pieces |-> [c \in 0 .. 1 |-> [t \in 0 .. 5 |-> {}]],
   occupied |-> [c \in 0 .. 1 |-> {}],
   occupied_all |-> {},
   kings |-> [c \in 0 .. 1 |-> SquareNone],
   side |-> White,
   castling |-> CastleNone,
   ep_square |-> SquareNone,
   halfmove_clock |-> 0,
   fullmove_number |-> 1,
   zobrist |-> {}]

piece_on(P, sq) == P.squares[sq]

remove_piece(P, pc, sq) ==
  IF pc = PieceNone THEN P
  ELSE LET c == color_index(color_of(pc))
           type == type_of(pc)
       IN [P EXCEPT !.squares[sq] = PieceNone,
                    !.pieces[c][type] = @ \ bit(sq),
                    !.occupied[c] = @ \ bit(sq),
                    !.occupied_all = @ \ bit(sq),
                    !.zobrist = Xor(@, {ZPiece(c, type, sq)}),
                    !.kings[c] = IF type = King THEN SquareNone ELSE @]

\* put_piece as it would be without its update of occupied_all_; the
\* consistency of the board tells it from put_piece.
put_piece_without_occupied_all(P, pc, sq) ==
  LET P1 == IF P.squares[sq] # PieceNone THEN remove_piece(P, P.squares[sq], sq) ELSE P
      P2 == [P1 EXCEPT !.squares[sq] = pc]
  IN IF pc = PieceNone THEN P2
     ELSE LET c == color_index(color_of(pc))
              type == type_of(pc)
          IN [P2 EXCEPT !.pieces[c][type] = @ \cup bit(sq),
                        !.occupied[c] = @ \cup bit(sq),
                        !.kings[c] = IF type = King THEN sq ELSE @,
                        !.zobrist = Xor(@, {ZPiece(c, type, sq)})]

put_piece(P, pc, sq) ==
  LET P1 == IF P.squares[sq] # PieceNone THEN remove_piece(P, P.squares[sq], sq) ELSE P
      P2 == [P1 EXCEPT !.squares[sq] = pc]
  IN IF pc = PieceNone THEN P2
     ELSE LET c == color_index(color_of(pc))
              type == type_of(pc)
          IN [P2 EXCEPT !.pieces[c][type] = @ \cup bit(sq),
                        !.occupied[c] = @ \cup bit(sq),
                        !.occupied_all = @ \cup bit(sq),
                        !.kings[c] = IF type = King THEN sq ELSE @,
                        !.zobrist = Xor(@, {ZPiece(c, type, sq)})]

set_en_passant(P, sq) ==
  LET z1 == IF P.ep_square # SquareNone
            THEN Xor(P.zobrist, {ZEp(file_of(P.ep_square))}) ELSE P.zobrist
      z2 == IF sq # SquareNone THEN Xor(z1, {ZEp(file_of(sq))}) ELSE z1
  IN [P EXCEPT !.ep_square = sq, !.zobrist = z2]

recompute_occupancy(P) ==
  LET occ == [c \in 0 .. 1 |-> UNION {P.pieces[c][t] : t \in 0 .. 5}]
  IN [P EXCEPT !.occupied = occ, !.occupied_all = occ[0] \cup occ[1]]

\* The loop over the 64 squares of compute_zobrist: the XOR of the piece
\* keys of the occupied squares (the keys of distinct squares differ, so
\* the XOR of all of them is the set of them).
ZobristSquares(P) ==
  {ZPiece(color_index(color_of(P.squares[sq])), type_of(P.squares[sq]), sq) :
     sq \in {s \in Squares : P.squares[s] # PieceNone}}

compute_zobrist(P) ==
  LET v1 == Xor(ZobristSquares(P), {ZCastling(P.castling)})
      v2 == IF P.ep_square # SquareNone
            THEN Xor(v1, {ZEp(file_of(P.ep_square))}) ELSE v1
  IN IF P.side = Black THEN Xor(v2, {ZSide}) ELSE v2

recompute_zobrist(P) == [P EXCEPT !.zobrist = compute_zobrist(P)]

is_square_attacked(P, sq, by) ==
  LET attacker == color_index(by)
      bishops == P.pieces[attacker][Bishop] \cup P.pieces[attacker][Queen]
      rooks == P.pieces[attacker][Rook] \cup P.pieces[attacker][Queen]
  IN \/ pawn_attacks(flip(by), sq) \cap P.pieces[attacker][Pawn] # {}
     \/ knight_attacks(sq) \cap P.pieces[attacker][Knight] # {}
     \/ bishop_attacks(sq, P.occupied_all) \cap bishops # {}
     \/ rook_attacks(sq, P.occupied_all) \cap rooks # {}
     \/ king_attacks(sq) \cap P.pieces[attacker][King] # {}

in_check(P, color) ==
  LET king_sq == P.kings[color_index(color)]
  IN IF king_sq = SquareNone THEN FALSE
     ELSE is_square_attacked(P, king_sq, flip(color))

\* The lambda apply_castling of make.
apply_castling(P, new_castling) ==
  IF new_castling # P.castling
  THEN [P EXCEPT !.castling = new_castling,
                 !.zobrist = Xor(Xor(@, {ZCastling(P.castling)}),
                                 {ZCastling(new_castling)})]
  ELSE P

\* new_castling as it would be without the clear for a king that moves; a
\* king's step off its home square tells it from CastlingAfter.
CastlingAfterCornersOnly(P, from, to, origin_type) ==
  ClearRights(ClearRights(P.castling, kCastlingClear(from)), kCastlingClear(to))

\* new_castling as make computes it from the from/to squares and the mover.
CastlingAfter(P, from, to, origin_type) ==
  LET c1 == ClearRights(P.castling, kCastlingClear(from))
      c2 == ClearRights(c1, kCastlingClear(to))
  IN IF origin_type = King
     THEN IF P.side = White THEN ClearRights(c2, CastleWK + CastleWQ)
          ELSE ClearRights(c2, CastleBK + CastleBQ)
     ELSE c2

\* The tail shared by both paths of make: fullmove counter and side flip.
FlipSide(P) ==
  [P EXCEPT !.fullmove_number = IF P.side = Black THEN (@ + 1) % 65536 ELSE @,
            !.side = flip(P.side),
            !.zobrist = Xor(@, {ZSide})]

\* set_en_passant(from + 8 or from - 8) behind a double push, when there is one.
double_push_ep(P, from, is_double_push) ==
  IF is_double_push
  THEN set_en_passant(P, from + (IF P.side = White THEN 8 ELSE -8))
  ELSE P

\* The fused update as it would be if the halfmove clock always counted up;
\* a pawn move through the general path tells it from make_fast_shift.
make_fast_shift_clock_counts(P0, m) ==
  LET from == from_square(m)
      to == to_square(m)
      moving == P0.squares[from]
      origin_type == type_of(moving)
      mover_idx == color_index(P0.side)
      shift_mask == bit(from) \cup bit(to)
  IN [P0 EXCEPT
        !.pieces[mover_idx][origin_type] = Xor(@, shift_mask),
        !.occupied[mover_idx] = Xor(@, shift_mask),
        !.occupied_all = Xor(@, shift_mask),
        !.zobrist = Xor(@, Xor({ZPiece(mover_idx, origin_type, from)},
                               {ZPiece(mover_idx, origin_type, to)})),
        !.squares = [@ EXCEPT ![from] = PieceNone, ![to] = moving],
        !.halfmove_clock = (@ + 1) % 256,
        !.kings[mover_idx] = IF origin_type = King THEN to ELSE @]

\* make, lines 764-782: the fused update of the bitboards, the hash, the
\* mailbox, the halfmove clock and the king square.
make_fast_shift(P0, m) ==
  LET from == from_square(m)
      to == to_square(m)
      moving == P0.squares[from]
      origin_type == type_of(moving)
      mover_idx == color_index(P0.side)
      shift_mask == bit(from) \cup bit(to)
  IN [P0 EXCEPT
        !.pieces[mover_idx][origin_type] = Xor(@, shift_mask),
        !.occupied[mover_idx] = Xor(@, shift_mask),
        !.occupied_all = Xor(@, shift_mask),
        !.zobrist = Xor(@, Xor({ZPiece(mover_idx, origin_type, from)},
                               {ZPiece(mover_idx, origin_type, to)})),
        !.squares = [@ EXCEPT ![from] = PieceNone, ![to] = moving],
        !.halfmove_clock = IF origin_type = Pawn THEN 0 ELSE (@ + 1) % 256,
        !.kings[mover_idx] = IF origin_type = King THEN to ELSE @]

\* make, lines 784-813: castling rights, en-passant square, side flip.
make_fast_tail(P0, P1, m, undo) ==
  LET from == from_square(m)
      origin_type == type_of(P0.squares[from])
      is_double_push == move_flag(m) = DoublePush /\ origin_type = Pawn
      new_castling == CastlingAfter(P0, from, to_square(m), origin_type)
  IN [pos |-> FlipSide(double_push_ep(apply_castling(P1, new_castling),
                                      from, is_double_push)),
      undo |-> [undo EXCEPT !.captured = PieceNone]]

\* The fused path as it would be without its update of kings_; the king
\* bookkeeping tells it from make_fast.
make_fast_stale_king(P0, m, undo) ==
  make_fast_tail(P0, [make_fast_shift(P0, m) EXCEPT !.kings = P0.kings], m, undo)

\* make, lines 764-814: the fused quiet / double-push path.
make_fast(P0, m, undo) ==
  make_fast_tail(P0, make_fast_shift(P0, m), m, undo)

\* make, lines 816-826: the square a piece is captured on (SquareNone: none).
capture_square(P0, m) ==
  IF move_flag(m) = EnPassant
  THEN to_square(m) + (IF P0.side = White THEN -8 ELSE 8)
  ELSE IF P0.squares[to_square(m)] # PieceNone THEN to_square(m) ELSE SquareNone

\* make, lines 816-826: the captured piece (PieceNone: none).
captured_by(P0, m) ==
  IF capture_square(P0, m) = SquareNone THEN PieceNone
  ELSE P0.squares[capture_square(P0, m)]

\* make, lines 836-847 and unmake, lines 929-940: the rook's half of a
\* castling move, from file `rook_from_file` to file `rook_to_file`.
move_castling_rook(P, m, rook_from_file, rook_to_file) ==
  IF move_flag(m) = KingCastle \/ move_flag(m) = QueenCastle
  THEN put_piece(remove_piece(P, P.squares[rank_of(to_square(m)) * 8 + rook_from_file],
                              rank_of(to_square(m)) * 8 + rook_from_file),
                 P.squares[rank_of(to_square(m)) * 8 + rook_from_file],
                 rank_of(to_square(m)) * 8 + rook_to_file)
  ELSE P

\* kings_[mover] = sq when the moved piece is a king.
track_king(P, type, c, sq) ==
  IF type = King THEN [P EXCEPT !.kings[c] = sq] ELSE P

\* make, lines 816-892: the general remove / place path.
make_general(P0, m, undo) ==
  LET from == from_square(m)
      to == to_square(m)
      flag == move_flag(m)
      moving == P0.squares[from]
      origin_type == type_of(moving)
      mover_idx == color_index(P0.side)
      capture_sq == capture_square(P0, m)
      captured == captured_by(P0, m)
      king_side == flag = KingCastle
      placed == IF flag = Promotion \/ flag = PromotionCapture
                THEN make_piece(P0.side, promotion_type(m)) ELSE moving
      P1 == IF capture_sq = SquareNone THEN P0
            ELSE remove_piece(P0, captured, capture_sq)
      P3 == put_piece(remove_piece(P1, moving, from), placed, to)
      P4 == move_castling_rook(P3, m, IF king_side THEN 7 ELSE 0,
                               IF king_side THEN 5 ELSE 3)
      P6 == track_king(double_push_ep(P4, from, flag = DoublePush),
                       origin_type, mover_idx, to)
      nc1 == CastlingAfter(P0, from, to, origin_type)
      nc2 == IF captured # PieceNone /\ type_of(captured) = Rook
             THEN ClearRights(nc1, kCastlingClear(IF capture_sq = SquareNone
                                                   THEN to ELSE capture_sq))
             ELSE nc1
      P7 == apply_castling(P6, nc2)
      P8 == [P7 EXCEPT !.halfmove_clock =
                         IF origin_type = Pawn \/ captured # PieceNone
                         THEN 0 ELSE (@ + 1) % 256]
  IN [pos |-> FlipSide(P8), undo |-> [undo EXCEPT !.captured = captured]]

\* Position::make: returns the new position and the filled Undo.
make(P, m) ==
  LET undo == [key |-> P.zobrist, move |-> m, captured |-> PieceNone,
               castling |-> P.castling, halfmove_clock |-> P.halfmove_clock,
               en_passant |-> P.ep_square]
      flag == move_flag(m)
      origin_type == type_of(P.squares[from_square(m)])
      quiet_like == flag = Quiet \/ (flag = DoublePush /\ origin_type = Pawn)
  IN IF quiet_like /\ P.squares[to_square(m)] = PieceNone
     THEN make_fast(set_en_passant(P, SquareNone), m, undo)
     ELSE make_general(set_en_passant(P, SquareNone), m, undo)

\* unmake, lines 919-927: the fused path.
unmake_fast(P1, m) ==
  LET from == from_square(m)
      to == to_square(m)
      moving == P1.squares[to]
      moving_type == type_of(moving)
      mover_idx == color_index(P1.side)
      shift_mask == bit(from) \cup bit(to)
  IN [P1 EXCEPT
        !.pieces[mover_idx][moving_type] = Xor(@, shift_mask),
        !.occupied[mover_idx] = Xor(@, shift_mask),
        !.occupied_all = Xor(@, shift_mask),
        !.zobrist = Xor(@, Xor({ZPiece(mover_idx, moving_type, to)},
                               {ZPiece(mover_idx, moving_type, from)})),
        !.squares = [@ EXCEPT ![to] = PieceNone, ![from] = moving]]

\* unmake, lines 948-954: the captured piece goes back to its square.
restore_captured(P, m, captured) ==
  IF move_flag(m) = EnPassant
  THEN put_piece(P, captured, to_square(m) + (IF P.side = White THEN -8 ELSE 8))
  ELSE IF captured # PieceNone THEN put_piece(P, captured, to_square(m))
  ELSE P

\* unmake, lines 929-958: the general path.
unmake_general(P1, m, undo) ==
  LET from == from_square(m)
      to == to_square(m)
      flag == move_flag(m)
      moving == P1.squares[to]
      king_side == flag = KingCastle
      restored == IF flag = Promotion \/ flag = PromotionCapture
                  THEN make_piece(P1.side, Pawn) ELSE moving
      P2 == move_castling_rook(P1, m, IF king_side THEN 5 ELSE 3,
                               IF king_side THEN 7 ELSE 0)
      P4 == put_piece(remove_piece(P2, moving, to), restored, from)
  IN track_king(restore_captured(P4, m, undo.captured),
                type_of(restored), color_index(P1.side), from)

\* unmake, lines 905-959: the side flips back and one of the two paths runs.
unmake_pieces(P, m, undo) ==
  LET flag == move_flag(m)
      moving_type == type_of(P.squares[to_square(m)])
      quiet_like == flag = Quiet \/ flag = DoublePush
      fast_path == quiet_like /\ undo.captured = PieceNone /\ moving_type # King
  IN IF fast_path
     THEN unmake_fast([P EXCEPT !.side = flip(P.side), !.zobrist = Xor(@, {ZSide})], m)
     ELSE unmake_general([P EXCEPT !.side = flip(P.side), !.zobrist = Xor(@, {ZSide})],
                         m, undo)

\* unmake, lines 962-968: the counters and the hash come back from the Undo.
unmake_counters(P, undo) ==
  [P EXCEPT !.halfmove_clock = undo.halfmove_clock,
            !.fullmove_number = IF P.side = Black THEN (@ - 1) % 65536 ELSE @,
            !.zobrist = undo.key]

\* unmake as it would be without `castling_ = undo.castling`; the
\* make/unmake law tells it from unmake.
unmake_keeps_castling(P, m, undo) ==
  unmake_counters(set_en_passant(unmake_pieces(P, m, undo), undo.en_passant), undo)

\* Position::unmake.
unmake(P, m, undo) ==
  unmake_counters(
    set_en_passant([unmake_pieces(P, m, undo) EXCEPT !.castling = undo.castling],
                   undo.en_passant),
    undo)

(***************************************************************************)
(* board.cpp: pins, checkers and move generation.                          *)
(***************************************************************************)
\* The lambda `scan` of slider_attacks_square.
RECURSIVE SliderScan(_, _, _, _, _, _)
SliderScan(f, r, df, dr, occ, sliders) ==
  IF ~on_board(f, r) THEN FALSE
  ELSE LET sq == r * 8 + f
       IN IF sq \in occ THEN sq \in sliders
          ELSE SliderScan(f + df, r + dr, df, dr, occ, sliders)

slider_attacks_square(occ, target, bishop_sliders, rook_sliders) ==
  LET file == file_of(target)
      rank == rank_of(target)
  IN \/ SliderScan(file + 1, rank + 1, 1, 1, occ, bishop_sliders)
     \/ SliderScan(file + 1, rank - 1, 1, -1, occ, bishop_sliders)
     \/ SliderScan(file - 1, rank + 1, -1, 1, occ, bishop_sliders)
     \/ SliderScan(file - 1, rank - 1, -1, -1, occ, bishop_sliders)
     \/ SliderScan(file + 1, rank, 1, 0, occ, rook_sliders)
     \/ SliderScan(file - 1, rank, -1, 0, occ, rook_sliders)
     \/ SliderScan(file, rank + 1, 0, 1, occ, rook_sliders)
     \/ SliderScan(file, rank - 1, 0, -1, occ, rook_sliders)

\* The lambda trace_direction of pinned_mask: the walk from (file, rank) with
\* the friendly candidate found so far (SquareNone: none yet).  Returns the
\* pair <<pinned square, pinning square>>, or <<SquareNone, SquareNone>>.
RECURSIVE TraceWalk(_, _, _, _, _, _, _, _)
TraceWalk(P, us, file, rank, df, dr, sliders, candidate) ==
  IF ~on_board(file, rank) THEN <<SquareNone, SquareNone>>
  ELSE LET sq == rank * 8 + file
           pc == P.squares[sq]
       IN IF pc = PieceNone
          THEN TraceWalk(P, us, file + df, rank + dr, df, dr, sliders, candidate)
          ELSE IF color_of(pc) = us
          THEN IF candidate # SquareNone THEN <<SquareNone, SquareNone>>
               ELSE TraceWalk(P, us, file + df, rank + dr, df, dr, sliders, sq)
          ELSE IF sq \in sliders /\ candidate # SquareNone
               THEN <<candidate, sq>>
               ELSE <<SquareNone, SquareNone>>

trace_direction(P, us, df, dr, diagonal) ==
  LET them == color_index(flip(us))
      king_sq == P.kings[color_index(us)]
      enemy_rooks == P.pieces[them][Rook] \cup P.pieces[them][Queen]
      enemy_bishops == P.pieces[them][Bishop] \cup P.pieces[them][Queen]
  IN TraceWalk(P, us, file_of(king_sq) + df, rank_of(king_sq) + dr, df, dr,
               IF diagonal THEN enemy_bishops ELSE enemy_rooks, SquareNone)

PinDirections ==
  <<<<1, 0, FALSE>>, <<-1, 0, FALSE>>, <<0, 1, FALSE>>, <<0, -1, FALSE>>,
    <<1, 1, TRUE>>, <<1, -1, TRUE>>, <<-1, 1, TRUE>>, <<-1, -1, TRUE>>>>

\* Position::pinned_mask: the pinned bitboard and the pin_masks array.
pinned_mask(P, us) ==
  LET king_sq == P.kings[color_index(us)]
      found == {trace_direction(P, us, PinDirections[i][1], PinDirections[i][2],
                                PinDirections[i][3]) : i \in 1 .. 8}
              \ {<<SquareNone, SquareNone>>}
  IN [pinned |-> {pr[1] : pr \in found},
      pin_masks |->
        [sq \in Squares |->
           IF \E pr \in found : pr[1] = sq
           THEN LET pr == CHOOSE q \in found : q[1] = sq
                IN between_squares(king_sq, pr[2]) \cup bit(pr[2]) \cup bit(sq)
           ELSE {}]]

\* Position::in_double_check: the checkers bitboard and the return value.
in_double_check(P, side) ==
  LET them == flip(side)
      ti == color_index(them)
      king_sq == P.kings[color_index(side)]
      king_mask == bit(king_sq)
      pawn_sources == IF them = White
                      THEN south_west(king_mask) \cup south_east(king_mask)
                      ELSE north_west(king_mask) \cup north_east(king_mask)
      enemy_king == P.kings[ti]
      checkers ==
        (pawn_sources \cap P.pieces[ti][Pawn]) \cup
        (knight_attacks(king_sq) \cap P.pieces[ti][Knight]) \cup
        (bishop_attacks(king_sq, P.occupied_all) \cap
           (P.pieces[ti][Bishop] \cup P.pieces[ti][Queen])) \cup
        (rook_attacks(king_sq, P.occupied_all) \cap
           (P.pieces[ti][Rook] \cup P.pieces[ti][Queen])) \cup
        (IF enemy_king # SquareNone /\ (king_attacks(king_sq) \cap bit(enemy_king)) # {}
         THEN bit(enemy_king) ELSE {})
  IN [checkers |-> checkers, double |-> Cardinality(checkers) >= 2]

PromoOrder == <<Queen, Rook, Bishop, Knight>>

\* The pawn section of generate_pseudo_legal for the side to move; `fwd` is
\* +8 for White and -8 for Black.
PawnMoves(P) ==
  LET white == P.side = White
      us == color_index(P.side)
      them == color_index(flip(P.side))
      theirs == P.occupied[them]
      empty == Squares \ P.occupied_all
      pawns == P.pieces[us][Pawn]
      last_rank == IF white THEN kRank(7) ELSE kRank(0)
      single == pawn_single_pushes(P.side, pawns, empty)
      double_push == pawn_double_pushes(P.side,
                       pawns \cap (IF white THEN kRank(1) ELSE kRank(6)), empty)
      capture_left == (IF white THEN north_west(pawns) ELSE south_west(pawns)) \cap theirs
      capture_right == (IF white THEN north_east(pawns) ELSE south_east(pawns)) \cap theirs
      back1 == IF white THEN -8 ELSE 8
      backl == IF white THEN -7 ELSE 9
      backr == IF white THEN -9 ELSE 7
      Promos(from, to, flag) == [i \in 1 .. 4 |-> make_move(from, to, flag, PromoOrder[i])]
      Caps(bb, back) ==
        Flatten([i \in 1 .. Len(BitScan(bb)) |->
                   LET to == BitScan(bb)[i]
                   IN IF to \in last_rank
                      THEN Promos(to + back, to, PromotionCapture)
                      ELSE <<make_move(to + back, to, Capture, PieceTypeNone)>>])
      quiets == BitScan(single \ last_rank)
      doubles == BitScan(double_push)
      promotions == BitScan(single \cap last_rank)
      ep == P.ep_square
      ep_ok == ep # SquareNone /\ rank_of(ep) = (IF white THEN 5 ELSE 2)
      ep_from1 == ep + (IF white THEN -9 ELSE 7)
      ep_from2 == ep + (IF white THEN -7 ELSE 9)
      own_pawn == make_piece(P.side, Pawn)
  IN [i \in 1 .. Len(quiets) |->
        make_move(quiets[i] + back1, quiets[i], Quiet, PieceTypeNone)]
     \o [i \in 1 .. Len(doubles) |->
        make_move(doubles[i] + 2 * back1, doubles[i], DoublePush, PieceTypeNone)]
     \o Flatten([i \in 1 .. Len(promotions) |->
        Promos(promotions[i] + back1, promotions[i], Promotion)])
     \o Caps(capture_left, backl)
     \o Caps(capture_right, backr)
     \o (IF ep_ok /\ file_of(ep) > 0 /\ ep_from1 >= 0 /\ ep_from1 < 64
            /\ P.squares[ep_from1] = own_pawn
         THEN <<make_move(ep_from1, ep, EnPassant, PieceTypeNone)>> ELSE <<>>)
     \o (IF ep_ok /\ file_of(ep) < 7 /\ ep_from2 >= 0 /\ ep_from2 < 64
            /\ P.squares[ep_from2] = own_pawn
         THEN <<make_move(ep_from2, ep, EnPassant, PieceTypeNone)>> ELSE <<>>)

\* The inner loops that emit one piece's moves: Capture onto an enemy, Quiet
\* otherwise.
EmitTargets(P, from, moves) ==
  LET theirs == P.occupied[color_index(flip(P.side))]
      tos == BitScan(moves)
  IN [i \in 1 .. Len(tos) |->
        make_move(from, tos[i], IF tos[i] \in theirs THEN Capture ELSE Quiet,
                  PieceTypeNone)]

PieceAttacks(type, sq, occ) ==
  IF type = Knight THEN knight_attacks(sq)
  ELSE IF type = Bishop THEN bishop_attacks(sq, occ)
  ELSE IF type = Rook THEN rook_attacks(sq, occ)
  ELSE IF type = Queen THEN bishop_attacks(sq, occ) \cup rook_attacks(sq, occ)
  ELSE king_attacks(sq)

\* The loop over one piece kind (the knight loop, emit_sliders).
emit_sliders(P, type) ==
  LET us == color_index(P.side)
      froms == BitScan(P.pieces[us][type])
  IN Flatten([i \in 1 .. Len(froms) |->
                EmitTargets(P, froms[i],
                            PieceAttacks(type, froms[i], P.occupied_all) \ P.occupied[us])])

\* The castling section of generate_pseudo_legal.
CastlingMoves(P) ==
  LET enemy == flip(P.side)
      base == IF P.side = White THEN 0 ELSE 56
      kright == IF P.side = White THEN CastleWK ELSE CastleBK
      qright == IF P.side = White THEN CastleWQ ELSE CastleBQ
      Safe(sq) == ~is_square_attacked(P, sq, enemy)
  IN (IF HasRight(P.castling, kright)
         /\ P.occupied_all \cap {base + 5, base + 6} = {}
         /\ Safe(base + 4) /\ Safe(base + 5) /\ Safe(base + 6)
      THEN <<make_move(base + 4, base + 6, KingCastle, PieceTypeNone)>> ELSE <<>>)
     \o
     (IF HasRight(P.castling, qright)
         /\ P.occupied_all \cap {base + 3, base + 2, base + 1} = {}
         /\ Safe(base + 4) /\ Safe(base + 3) /\ Safe(base + 2)
      THEN <<make_move(base + 4, base + 2, QueenCastle, PieceTypeNone)>> ELSE <<>>)

\* Position::generate_pseudo_legal.
generate_pseudo_legal(P) ==
  LET us == color_index(P.side)
      king_bb == P.pieces[us][King]
  IN PawnMoves(P)
     \o emit_sliders(P, Knight)
     \o emit_sliders(P, Bishop)
     \o emit_sliders(P, Rook)
     \o emit_sliders(P, Queen)
     \o (IF king_bb # {}
         THEN LET from == BitScan(king_bb)[1]
              IN EmitTargets(P, from, king_attacks(from) \ P.occupied[us])
                 \o CastlingMoves(P)
         ELSE <<>>)

IsCaptureFlag(flag) == flag = Capture \/ flag = EnPassant \/ flag = PromotionCapture

IsQuietFlag(flag) ==
  flag = Quiet \/ flag = DoublePush \/ flag = KingCastle \/ flag = QueenCastle
  \/ flag = Promotion

\* generate_moves, lines 511-564: what is computed once before the loop,
\* from the pins and the checkers.
GenContextOf(P, us, pins, chk, checker_sq) ==
  [us |-> us,
   pinned |-> pins.pinned,
   pin_masks |-> pins.pin_masks,
   double_check |-> chk.double,
   in_check_now |-> chk.checkers # {},
   king_sq |-> P.kings[color_index(us)],
   enemy_pawn_attacks |->
     UNION {pawn_attacks(flip(us), sq) : sq \in P.pieces[color_index(flip(us))][Pawn]},
   enemy_knight_attacks |->
     UNION {knight_attacks(sq) : sq \in P.pieces[color_index(flip(us))][Knight]},
   enemy_king_attacks |-> IF P.kings[color_index(flip(us))] # SquareNone
                          THEN king_attacks(P.kings[color_index(flip(us))]) ELSE {},
   enemy_bishop_sliders |-> P.pieces[color_index(flip(us))][Bishop]
                            \cup P.pieces[color_index(flip(us))][Queen],
   enemy_rook_sliders |-> P.pieces[color_index(flip(us))][Rook]
                          \cup P.pieces[color_index(flip(us))][Queen],
   capture_block |->
     IF chk.checkers = {} THEN Squares
     ELSE IF chk.double THEN {}
     ELSE IF type_of(piece_on(P, checker_sq)) \in {Bishop, Rook, Queen}
          THEN bit(checker_sq) \cup between_squares(P.kings[color_index(us)], checker_sq)
          ELSE bit(checker_sq)]

\* The lowest set bit of a bitboard (SquareNone when it is empty).
lsb(bb) == IF bb = {} THEN SquareNone ELSE CHOOSE c \in bb : \A d \in bb : c <= d

GenContextChecked(P, us, pins, chk) ==
  GenContextOf(P, us, pins, chk, lsb(chk.checkers))

GenContext(P) ==
  GenContextChecked(P, P.side, pinned_mask(P, P.side), in_double_check(P, P.side))

\* generate_moves, lines 620-640: is the king's destination hit by a slider
\* once the king has left `from` (and the captured piece is gone)?
KingStepIntoSlider(P, ctx, move) ==
  LET from == from_square(move)
      to == to_square(move)
      captured_piece == piece_on(P, to)
      taking == IsCaptureFlag(move_flag(move)) /\ captured_piece # PieceNone
      captured_type == type_of(captured_piece)
      occ == (Xor(P.occupied_all, bit(from))) \cup bit(to)
      bishop_sliders == IF taking /\ captured_type \in {Bishop, Queen}
                        THEN ctx.enemy_bishop_sliders \ bit(to)
                        ELSE ctx.enemy_bishop_sliders
      rook_sliders == IF taking /\ captured_type \in {Rook, Queen}
                      THEN ctx.enemy_rook_sliders \ bit(to)
                      ELSE ctx.enemy_rook_sliders
  IN slider_attacks_square(occ, to, bishop_sliders, rook_sliders)

\* generate_moves, lines 592-663: TRUE when the loop body `continue`s before
\* the make/unmake validation.
RejectedEarly(P, ctx, move) ==
  LET flag == move_flag(move)
      from == from_square(move)
      to == to_square(move)
      moving_type == type_of(piece_on(P, from))
      leapers == ctx.enemy_pawn_attacks \cup ctx.enemy_knight_attacks
                 \cup ctx.enemy_king_attacks
  IN IF moving_type = King
     THEN IF flag = KingCastle
          THEN leapers \cap (bit(ctx.king_sq + 1) \cup bit(ctx.king_sq + 2)) # {}
          ELSE IF flag = QueenCastle
          THEN leapers \cap (bit(ctx.king_sq - 1) \cup bit(ctx.king_sq - 2)) # {}
          ELSE \/ to \in leapers
               \/ KingStepIntoSlider(P, ctx, move)
     ELSE \/ ctx.double_check
          \/ ctx.in_check_now /\ flag # EnPassant /\ to \notin ctx.capture_block
          \/ from \in ctx.pinned /\ to \notin ctx.pin_masks[from]

\* The validation test as it would be without lines 662-664 (an en-passant
\* capture is always validated); the generator's exactness tells it from
\* NeedsValidation.
NeedsValidationCastlingOnly(P, move) ==
  LET flag == move_flag(move)
      moving_type == type_of(piece_on(P, from_square(move)))
  IN moving_type = King /\ (flag = KingCastle \/ flag = QueenCastle)

\* generate_moves, lines 583-664: the value of needs_validation when the
\* body reaches `if (needs_validation)`.
NeedsValidation(P, move) ==
  LET flag == move_flag(move)
      moving_type == type_of(piece_on(P, from_square(move)))
  IN \/ moving_type = King /\ (flag = KingCastle \/ flag = QueenCastle)
     \/ flag = EnPassant

\* generate_moves, lines 576-581: the stage filter lets the move through.
StagePasses(move, stage) ==
  /\ stage = GenCaptures => IsCaptureFlag(move_flag(move))
  /\ stage = GenQuiets => IsQuietFlag(move_flag(move))

\* generate_moves, lines 665-673: the move is made, the mover's king is
\* tested and the move is unmade; `made` is what make returned.
validate_move(made, move, us) ==
  [keep |-> ~in_check(made.pos, us),
   pos |-> unmake(made.pos, move, made.undo)]

\* One iteration of the loop over the pseudo-legal moves: whether the move is
\* pushed to `out`, and the position after the body (validation makes and
\* unmakes the move on the position itself).
FilterMove(P, ctx, move, stage) ==
  IF ~StagePasses(move, stage) \/ RejectedEarly(P, ctx, move)
  THEN [keep |-> FALSE, pos |-> P]
  ELSE IF NeedsValidation(P, move)
  THEN validate_move(make(P, move), move, ctx.us)
  ELSE [keep |-> TRUE, pos |-> P]

\* The iteration of `move` on position P reaches `if (needs_validation)`
\* with the flag set.
ReachesValidation(P, ctx, move, stage) ==
  /\ StagePasses(move, stage)
  /\ ~RejectedEarly(P, ctx, move)
  /\ NeedsValidation(P, move)

\* The first index from `first` on whose iteration reaches the make/unmake
\* validation on position P (Len(pseudo) + 1: none).
NextValidated(P, ctx, pseudo, first, stage) ==
  IF \E j \in first .. Len(pseudo) : ReachesValidation(P, ctx, pseudo[j], stage)
  THEN CHOOSE j \in first .. Len(pseudo) :
         /\ ReachesValidation(P, ctx, pseudo[j], stage)
         /\ \A other \in first .. j - 1 :
              ~ReachesValidation(P, ctx, pseudo[other], stage)
  ELSE Len(pseudo) + 1

\* The moves at the indices `kept`, in order.
KeptPlain(pseudo, kept) ==
  [k \in 1 .. Len(kept) |-> pseudo[kept[k]]]

\* The loop from index `first` on, started on position P: the moves pushed
\* to `out` and the position at the end.  Only an iteration that reaches the
\* make/unmake validation touches the position, so the iterations before
\* the next such one (index nxt) all see P; the loop then continues after
\* nxt on the position the validation left.
RECURSIVE GenLoop(_, _, _, _, _)
GenJoin(plain, move, keep, rest) ==
  [out |-> plain \o (IF keep THEN <<move>> ELSE <<>>) \o rest.out,
   pos |-> rest.pos]

GenValidated(plain, r, ctx, pseudo, nxt, stage) ==
  GenJoin(plain, pseudo[nxt], r.keep, GenLoop(r.pos, ctx, pseudo, nxt + 1, stage))

GenSplit(P, ctx, pseudo, first, stage, nxt) ==
  IF nxt > Len(pseudo)
  THEN [out |-> KeptPlain(pseudo,
                          Ascending({j \in first .. nxt - 1 :
                                       FilterMove(P, ctx, pseudo[j], stage).keep})),
        pos |-> P]
  ELSE GenValidated(KeptPlain(pseudo,
                              Ascending({j \in first .. nxt - 1 :
                                           FilterMove(P, ctx, pseudo[j], stage).keep})),
                    FilterMove(P, ctx, pseudo[nxt], stage), ctx, pseudo, nxt, stage)

GenLoop(P, ctx, pseudo, first, stage) ==
  GenSplit(P, ctx, pseudo, first, stage, NextValidated(P, ctx, pseudo, first, stage))

\* Position::generate_moves: the list `out` and the position it leaves.
generate_moves(P, stage) ==
  GenLoop(P, GenContext(P), generate_pseudo_legal(P), 1, stage)

\* Position::is_legal.
king_safe_after(made) == ~in_check(made.pos, flip(made.pos.side))

is_legal(P, m) == king_safe_after(make(P, m))

(***************************************************************************)
(* FEN text.  A string is a sequence of one-character strings, so that     *)
(* formatting and parsing are computed character by character.             *)
(***************************************************************************)
kPieceChars == <<".", "P", "N", "B", "R", "Q", "K", "p", "n", "b", "r", "q", "k">>

DigitChars == <<"0", "1", "2", "3", "4", "5", "6", "7", "8", "9">>

FileChars == <<"a", "b", "c", "d", "e", "f", "g", "h">>

UpperChars ==
  <<"A", "B", "C", "D", "E", "F", "G", "H", "I", "J", "K", "L", "M",
    "N", "O", "P", "Q", "R", "S", "T", "U", "V", "W", "X", "Y", "Z">>

LowerChars ==
  <<"a", "b", "c", "d", "e", "f", "g", "h", "i", "j", "k", "l", "m",
    "n", "o", "p", "q", "r", "s", "t", "u", "v", "w", "x", "y", "z">>

\* Position of c in the sequence chars, 0 when absent.
IndexOf(chars, c) ==
  IF \E i \in 1 .. Len(chars) : chars[i] = c
  THEN CHOOSE i \in 1 .. Len(chars) : chars[i] = c
  ELSE 0

is_digit(c) == IndexOf(DigitChars, c) # 0

DigitValue(c) == IndexOf(DigitChars, c) - 1

tolower(c) == IF IndexOf(UpperChars, c) # 0 THEN LowerChars[IndexOf(UpperChars, c)] ELSE c

piece_to_char(pc) == kPieceChars[pc + 1]

piece_from_char(c) ==
  IF IndexOf(kPieceChars, c) > 1 THEN IndexOf(kPieceChars, c) - 1 ELSE PieceNone

square_to_string(sq) ==
  IF sq = SquareNone THEN <<"-", "-">>
  ELSE <<FileChars[file_of(sq) + 1], DigitChars[rank_of(sq) + 2]>>

square_from_string(token) ==
  IF Len(token) < 2 THEN SquareNone
  ELSE LET file_char == tolower(token[1])
           rank_char == token[2]
       IN IF \/ IndexOf(FileChars, file_char) = 0
             \/ ~is_digit(rank_char)
             \/ DigitValue(rank_char) < 1
             \/ DigitValue(rank_char) > 8
          THEN SquareNone
          ELSE make_square(IndexOf(FileChars, file_char) - 1, DigitValue(rank_char) - 1)

\* operator<< of a non-negative int: its decimal digits.
RECURSIVE IntToChars(_)
IntToChars(n) ==
  IF n < 10 THEN <<DigitChars[n + 1]>>
  ELSE Append(IntToChars(n \div 10), DigitChars[(n % 10) + 1])

\* std::from_chars into an unsigned integer of maximum `max`: the leading
\* digits are the value; with no leading digit, or a value above max, the
\* target keeps `old`.
RECURSIVE DigitRun(_, _)
DigitRun(chars, i) ==
  IF i > Len(chars) \/ ~is_digit(chars[i]) THEN i - 1 ELSE DigitRun(chars, i + 1)

RECURSIVE DecimalValue(_, _, _, _)
DecimalValue(chars, i, last, max) ==
  IF i > last THEN 0
  ELSE LET rest == DecimalValue(chars, i, last - 1, max)
           v == (rest * 10) + DigitValue(chars[last])
       IN IF rest > max THEN rest ELSE v

from_chars(chars, max, old) ==
  LET last == DigitRun(chars, 1)
      v == DecimalValue(chars, 1, last, max)
  IN IF last = 0 \/ v > max THEN old ELSE v

\* One rank of Position::to_fen: pieces and run lengths of empty squares.
RECURSIVE RankChars(_, _, _, _)
RankChars(P, rank, file, empty) ==
  IF file = 8 THEN (IF empty > 0 THEN IntToChars(empty) ELSE <<>>)
  ELSE LET pc == P.squares[(rank * 8) + file]
       IN IF pc = PieceNone THEN RankChars(P, rank, file + 1, empty + 1)
          ELSE (IF empty > 0 THEN IntToChars(empty) ELSE <<>>)
               \o <<piece_to_char(pc)>>
               \o RankChars(P, rank, file + 1, 0)

RECURSIVE PlacementChars(_, _)
PlacementChars(P, rank) ==
  RankChars(P, rank, 0, 0)
  \o (IF rank > 0 THEN <<"/">> \o PlacementChars(P, rank - 1) ELSE <<>>)

CastlingChars(castling) ==
  IF castling = CastleNone THEN <<"-">>
  ELSE (IF HasRight(castling, CastleWK) THEN <<"K">> ELSE <<>>)
       \o (IF HasRight(castling, CastleWQ) THEN <<"Q">> ELSE <<>>)
       \o (IF HasRight(castling, CastleBK) THEN <<"k">> ELSE <<>>)
       \o (IF HasRight(castling, CastleBQ) THEN <<"q">> ELSE <<>>)

\* Position::to_fen.
to_fen(P) ==
  PlacementChars(P, 7)
  \o <<" ">> \o <<IF P.side = White THEN "w" ELSE "b">>
  \o <<" ">> \o CastlingChars(P.castling)
  \o <<" ">> \o (IF P.ep_square = SquareNone THEN <<"-">> ELSE square_to_string(P.ep_square))
  \o <<" ">> \o IntToChars(P.halfmove_clock)
  \o <<" ">> \o IntToChars(P.fullmove_number)

\* from_fen, lines 350-360: the text between spaces, at most six fields.
\* `ends` are the indices at which a field ends (each space, and the end of
\* the text); field k runs from after the previous end up to its own.
SplitFields(fen) ==
  LET ends == BitScan({i \in 1 .. Len(fen) + 1 : i = Len(fen) + 1 \/ fen[i] = " "})
      count == IF Len(ends) < 6 THEN Len(ends) ELSE 6
  IN [k \in 1 .. count |->
        SubSeq(fen, IF k = 1 THEN 1 ELSE ends[k - 1] + 1, ends[k] - 1)]

\* from_fen, lines 367-386: the placement loop.  sq_index before character
\* i is 56, minus 16 for each '/' before it, plus the digits before it, plus
\* one for each piece character before it.
CountBefore(placement, i, chars) ==
  Cardinality({j \in 1 .. i - 1 : placement[j] \in chars})

SqIndexBefore(placement, i) ==
  56 - (16 * CountBefore(placement, i, {"/"}))
  + CountBefore(placement, i, {"1"}) + (2 * CountBefore(placement, i, {"2"}))
  + (3 * CountBefore(placement, i, {"3"})) + (4 * CountBefore(placement, i, {"4"}))
  + (5 * CountBefore(placement, i, {"5"})) + (6 * CountBefore(placement, i, {"6"}))
  + (7 * CountBefore(placement, i, {"7"})) + (8 * CountBefore(placement, i, {"8"}))
  + (9 * CountBefore(placement, i, {"9"}))
  + Cardinality({j \in 1 .. i - 1 : placement[j] # "/" /\ ~is_digit(placement[j])})

\* The indices of the characters that reach put_piece, in order.
PlacedChars(placement) ==
  Ascending({i \in 1 .. Len(placement) : placement[i] # "/" /\ ~is_digit(placement[i])})

\* The position after the first n calls of put_piece.
RECURSIVE PutPieces(_, _, _)
PutPieces(placement, placed, n) ==
  IF n = 0 THEN clear
  ELSE put_piece(PutPieces(placement, placed, n - 1),
                 piece_from_char(placement[placed[n]]),
                 SqIndexBefore(placement, placed[n]))

\* `ok` is FALSE when a character is no piece (the throw); a piece written
\* outside the board array is outside the inputs considered and also
\* reported as not ok.
PlacementLoop(placement) ==
  LET placed == PlacedChars(placement)
      ok == \A k \in 1 .. Len(placed) :
              /\ piece_from_char(placement[placed[k]]) # PieceNone
              /\ SqIndexBefore(placement, placed[k]) \in Squares
  IN [ok |-> ok,
      pos |-> IF ok THEN PutPieces(placement, placed, Len(placed)) ELSE clear]

\* from_fen, lines 392-414.
RECURSIVE CastlingLoop(_, _, _, _)
CastlingLoop(field, i, rights, strict) ==
  IF i > Len(field) THEN [ok |-> TRUE, rights |-> rights]
  ELSE IF field[i] = "K" THEN CastlingLoop(field, i + 1, SetRight(rights, CastleWK), strict)
  ELSE IF field[i] = "Q" THEN CastlingLoop(field, i + 1, SetRight(rights, CastleWQ), strict)
  ELSE IF field[i] = "k" THEN CastlingLoop(field, i + 1, SetRight(rights, CastleBK), strict)
  ELSE IF field[i] = "q" THEN CastlingLoop(field, i + 1, SetRight(rights, CastleBQ), strict)
  ELSE IF strict THEN [ok |-> FALSE, rights |-> rights]
  ELSE CastlingLoop(field, i + 1, rights, strict)

kMaxUint8 == 255
kMaxUint16 == 65535

\* Position::from_fen.  ok = FALSE stands for the thrown runtime_error.
from_fen(fen, strict) ==
  LET fields == SplitFields(fen)
      field_idx == Len(fields)
      placed == PlacementLoop(fields[1])
      side == IF fields[2] = <<"b">> THEN Black ELSE White
      rights == IF fields[3] = <<"-">> THEN [ok |-> TRUE, rights |-> CastleNone]
                ELSE CastlingLoop(fields[3], 1, CastleNone, strict)
      ep_sq == IF fields[4] = <<"-">> THEN SquareNone ELSE square_from_string(fields[4])
      ep_ok == fields[4] = <<"-">> \/ ep_sq # SquareNone \/ ~strict
      halfmove == IF field_idx >= 5 THEN from_chars(fields[5], kMaxUint8, 0) ELSE 0
      fullmove == IF field_idx >= 6 THEN from_chars(fields[6], kMaxUint16, 1) ELSE 1
      parsed == [placed.pos EXCEPT !.side = side,
                                   !.castling = rights.rights,
                                   !.ep_square = ep_sq,
                                   !.halfmove_clock = halfmove,
                                   !.fullmove_number = fullmove]
      hashed == recompute_zobrist(recompute_occupancy(parsed))
  IN IF field_idx < 4 THEN [ok |-> FALSE, pos |-> clear]
     ELSE IF ~placed.ok \/ ~rights.ok \/ ~ep_ok THEN [ok |-> FALSE, pos |-> clear]
     ELSE [ok |-> TRUE,
           pos |-> IF side = Black
                   THEN [hashed EXCEPT !.zobrist = Xor(@, {ZSide})]
                   ELSE hashed]

(***************************************************************************)
(* The rules of chess on the mailbox alone, used to state what "the legal  *)
(* moves" are independently of the bitboard generator.                     *)
(***************************************************************************)
RECURSIVE RefRay(_, _, _, _, _)
RefRay(board, f, r, df, dr) ==
  IF ~on_board(f, r) THEN {}
  ELSE IF board[make_square(f, r)] # PieceNone THEN {make_square(f, r)}
  ELSE {make_square(f, r)} \cup RefRay(board, f + df, r + dr, df, dr)

RefDiagonals == {<<1, 1>>, <<1, -1>>, <<-1, 1>>, <<-1, -1>>}

RefOrthogonals == {<<1, 0>>, <<-1, 0>>, <<0, 1>>, <<0, -1>>}

RefSteps(sq, offsets) ==
  {make_square(file_of(sq) + o[1], rank_of(sq) + o[2]) :
     o \in {x \in offsets : on_board(file_of(sq) + x[1], rank_of(sq) + x[2])}}

\* Squares a non-pawn piece of kind `type` on sq reaches or attacks.
RefReach(board, type, sq) ==
  LET Rays(dirs) ==
        UNION {RefRay(board, file_of(sq) + d[1], rank_of(sq) + d[2], d[1], d[2]) : d \in dirs}
  IN IF type = Knight THEN RefSteps(sq, KnightOffsets)
     ELSE IF type = King THEN RefSteps(sq, KingOffsets)
     ELSE IF type = Bishop THEN Rays(RefDiagonals)
     ELSE IF type = Rook THEN Rays(RefOrthogonals)
     ELSE Rays(RefDiagonals \cup RefOrthogonals)

RefForward(c) == IF c = White THEN 1 ELSE -1

RefPawnAttacks(c, sq) == RefSteps(sq, {<<-1, RefForward(c)>>, <<1, RefForward(c)>>})

RefAttacked(board, sq, by) ==
  \E s \in Squares :
    /\ board[s] # PieceNone
    /\ color_of(board[s]) = by
    /\ IF type_of(board[s]) = Pawn THEN sq \in RefPawnAttacks(by, s)
       ELSE sq \in RefReach(board, type_of(board[s]), s)

RefPawnMoves(P, from) ==
  LET board == P.squares
      us == P.side
      fwd == 8 * RefForward(us)
      last == IF us = White THEN 7 ELSE 0
      start == IF us = White THEN 1 ELSE 6
      one == from + fwd
      two == from + (2 * fwd)
      WithPromo(to, plain, promo) ==
        IF rank_of(to) = last
        THEN {make_move(from, to, promo, pt) : pt \in {Knight, Bishop, Rook, Queen}}
        ELSE {make_move(from, to, plain, PieceTypeNone)}
      pushes == IF one \in Squares /\ board[one] = PieceNone
                THEN WithPromo(one, Quiet, Promotion)
                     \cup (IF rank_of(from) = start /\ board[two] = PieceNone
                           THEN {make_move(from, two, DoublePush, PieceTypeNone)}
                           ELSE {})
                ELSE {}
      captures == UNION {WithPromo(to, Capture, PromotionCapture) :
                           to \in {t \in RefPawnAttacks(us, from) :
                                     board[t] # PieceNone /\ color_of(board[t]) # us}}
      en_passant == IF /\ P.ep_square \in RefPawnAttacks(us, from)
                       /\ board[P.ep_square] = PieceNone
                       /\ board[P.ep_square - fwd] = make_piece(flip(us), Pawn)
                    THEN {make_move(from, P.ep_square, EnPassant, PieceTypeNone)}
                    ELSE {}
  IN pushes \cup captures \cup en_passant

RefCastling(P) ==
  LET board == P.squares
      us == P.side
      base == IF us = White THEN 0 ELSE 56
      Free(sqs) == \A s \in sqs : board[s] = PieceNone
      Safe(sqs) == \A s \in sqs : ~RefAttacked(board, s, flip(us))
      home == board[base + 4] = make_piece(us, King)
  IN (IF /\ home /\ HasRight(P.castling, IF us = White THEN CastleWK ELSE CastleBK)
         /\ board[base + 7] = make_piece(us, Rook)
         /\ Free({base + 5, base + 6}) /\ Safe({base + 4, base + 5, base + 6})
      THEN {make_move(base + 4, base + 6, KingCastle, PieceTypeNone)} ELSE {})
     \cup
     (IF /\ home /\ HasRight(P.castling, IF us = White THEN CastleWQ ELSE CastleBQ)
         /\ board[base] = make_piece(us, Rook)
         /\ Free({base + 1, base + 2, base + 3}) /\ Safe({base + 4, base + 3, base + 2})
      THEN {make_move(base + 4, base + 2, QueenCastle, PieceTypeNone)} ELSE {})

RefPseudoLegal(P) ==
  LET board == P.squares
      own == {s \in Squares : board[s] # PieceNone /\ color_of(board[s]) = P.side}
      PieceMoves(from) ==
        IF type_of(board[from]) = Pawn THEN RefPawnMoves(P, from)
        ELSE {make_move(from, to, IF board[to] = PieceNone THEN Quiet ELSE Capture,
                        PieceTypeNone) :
                to \in {t \in RefReach(board, type_of(board[from]), from) :
                          board[t] = PieceNone \/ color_of(board[t]) # P.side}}
  IN UNION {PieceMoves(from) : from \in own} \cup RefCastling(P)

\* The mailbox after the move, by the rules.
RefApply(P, m) ==
  LET board == P.squares
      from == from_square(m)
      to == to_square(m)
      flag == move_flag(m)
      placed == IF flag = Promotion \/ flag = PromotionCapture
                THEN make_piece(P.side, promotion_type(m)) ELSE board[from]
      moved == [board EXCEPT ![from] = PieceNone, ![to] = placed]
      base == rank_of(to) * 8
  IN IF flag = EnPassant THEN [moved EXCEPT ![to - (8 * RefForward(P.side))] = PieceNone]
     ELSE IF flag = KingCastle
     THEN [moved EXCEPT ![base + 7] = PieceNone, ![base + 5] = board[base + 7]]
     ELSE IF flag = QueenCastle
     THEN [moved EXCEPT ![base] = PieceNone, ![base + 3] = board[base]]
     ELSE moved

\* The legal moves: those after which the mover's own king is not attacked.
RefLegal(P) ==
  {m \in RefPseudoLegal(P) :
     LET after == RefApply(P, m)
     IN \A s \in Squares :
          after[s] = make_piece(P.side, King) => ~RefAttacked(after, s, flip(P.side))}

(***************************************************************************)
(* The board as a state machine: a root parsed by from_fen, then make and  *)
(* unmake of generated moves.                                              *)
(***************************************************************************)
\* Root positions, as FEN text:
\*  1  4k3/8/8/8/8/8/8/4K3 w - e4 0 1  (bare kings; the en-passant field names e4 although no pawn has moved)
\*  2  r3k2r/8/8/8/8/8/8/R3K2R w KQkq - 0 1  (all four castling rights)
\*  3  8/8/8/KPp4r/8/8/8/7k w - c6 0 1  (en passant that would uncover the rook on the fifth rank)
\*  4  4k3/8/8/8/3pP3/8/8/4K3 b - e3 0 1  (Black to move with an en-passant capture)
\*  5  1n2k3/P7/8/8/8/8/7p/4K1N1 w - - 0 1  (promotions and promotion captures for both sides)
\*  6  4k3/8/8/8/1b6/8/3P4/R3K3 w Q - 5 10  (a pinned pawn, non-zero clocks)
\*  7  4k3/8/8/8/8/5n2/8/4K2r w - - 0 1  (double check)
\*  8  4k3/4r3/8/8/8/8/3N4/4K3 w - - 0 1  (single check that can be blocked)
\*  9  4k3/8/8/8/8/8/8/4K2R b - - 255 65535  (Black to move, clocks at the top of their ranges)
\* 10  4k3/8/8/8/2p5/8/3P4/4K3 w - - 0 1  (a double push that can be answered by an en-passant capture)
\* 11  1rQ5/8/4b3/8/8/8/2n4k/K7 w - - 0 1  (in check; the one legal move, Qxc2, gives check)
\* 12  4k3/8/8/8/p7/8/4P3/4K3 w - - 0 1  (a double push with no enemy pawn beside the pawn's target)
RootFens ==
  <<<<"4", "k", "3", "/", "8", "/", "8", "/", "8", "/", "8", "/", "8", "/", "8", "/", "4", "K", "3", " ", "w", " ", "-", " ", "e", "4", " ", "0", " ", "1">>,
    <<"r", "3", "k", "2", "r", "/", "8", "/", "8", "/", "8", "/", "8", "/", "8", "/", "8", "/", "R", "3", "K", "2", "R", " ", "w", " ", "K", "Q", "k", "q", " ", "-", " ", "0", " ", "1">>,
    <<"8", "/", "8", "/", "8", "/", "K", "P", "p", "4", "r", "/", "8", "/", "8", "/", "8", "/", "7", "k", " ", "w", " ", "-", " ", "c", "6", " ", "0", " ", "1">>,
    <<"4", "k", "3", "/", "8", "/", "8", "/", "8", "/", "3", "p", "P", "3", "/", "8", "/", "8", "/", "4", "K", "3", " ", "b", " ", "-", " ", "e", "3", " ", "0", " ", "1">>,
    <<"1", "n", "2", "k", "3", "/", "P", "7", "/", "8", "/", "8", "/", "8", "/", "8", "/", "7", "p", "/", "4", "K", "1", "N", "1", " ", "w", " ", "-", " ", "-", " ", "0", " ", "1">>,
    <<"4", "k", "3", "/", "8", "/", "8", "/", "8", "/", "1", "b", "6", "/", "8", "/", "3", "P", "4", "/", "R", "3", "K", "3", " ", "w", " ", "Q", " ", "-", " ", "5", " ", "1", "0">>,
    <<"4", "k", "3", "/", "8", "/", "8", "/", "8", "/", "8", "/", "5", "n", "2", "/", "8", "/", "4", "K", "2", "r", " ", "w", " ", "-", " ", "-", " ", "0", " ", "1">>,
    <<"4", "k", "3", "/", "4", "r", "3", "/", "8", "/", "8", "/", "8", "/", "8", "/", "3", "N", "4", "/", "4", "K", "3", " ", "w", " ", "-", " ", "-", " ", "0", " ", "1">>,
    <<"4", "k", "3", "/", "8", "/", "8", "/", "8", "/", "8", "/", "8", "/", "8", "/", "4", "K", "2", "R", " ", "b", " ", "-", " ", "-", " ", "2", "5", "5", " ", "6", "5", "5", "3", "5">>,
    <<"4", "k", "3", "/", "8", "/", "8", "/", "8", "/", "2", "p", "5", "/", "8", "/", "3", "P", "4", "/", "4", "K", "3", " ", "w", " ", "-", " ", "-", " ", "0", " ", "1">>,
    <<"1", "r", "Q", "5", "/", "8", "/", "4", "b", "3", "/", "8", "/", "8", "/", "8", "/", "2", "n", "4", "k", "/", "K", "7", " ", "w", " ", "-", " ", "-", " ", "0", " ", "1">>,
    <<"4", "k", "3", "/", "8", "/", "8", "/", "8", "/", "p", "7", "/", "8", "/", "4", "P", "3", "/", "4", "K", "3", " ", "w", " ", "-", " ", "-", " ", "0", " ", "1">>>>

(***************************************************************************)
(* search.cpp: iterative deepening and the abort protocol of search,       *)
(* negamax and qsearch.  The game tree below the root is an input: which   *)
(* nodes cut off, which probes a node tries and what the scores are is     *)
(* chosen freely; what is translated is when nodes are counted, when the   *)
(* stop flag, the clock and the node cap are looked at, and what search    *)
(* does with its result when they fire.                                    *)
(***************************************************************************)
\* Move{}: the null move.
MoveNull == 0

\* should_extend_singular: `if (depth < 3) return false`.
kSingularMinDepth == 3

\* Largest limits.depth.
MaxDepth == 3

\* Largest limits.multipv.
MaxMultiPV == 2

\* Moves in the move list of a node below the root.
NodeMoves == 2

\* Deepest ply of the game tree.
MaxSearchPly == 2

\* state.nodes is counted up to this value; the node cap lies below it.
MaxNodes == 3

\* The clock runs up to this many milliseconds.
MaxElapsed == 2

\* Aspiration attempts after which the window is fully open.
MaxAttempts == 2

\* The scores negamax may return to search.
Scores == {1, 2}

\* limits.nodes: no cap, or a cap.
NodeCaps == {-1, MaxNodes - 1}

\* compute_time_budget's results: no time control, or a soft and a hard limit.
TimeBudgets == {[soft_ms |-> 0, hard_ms |-> 0], [soft_ms |-> 1, hard_ms |-> MaxElapsed]}

\* should_abort as it would be without its first test, the load of the stop
\* flag; the calls entered under the flag tell it from should_abort.
should_abort_without_flag_test(st, flag, elapsed_ms) ==
  IF st.use_time /\ st.hard_time_ms > 0
  THEN LET raised == /\ st.soft_time_ms > 0
                     /\ elapsed_ms >= st.soft_time_ms
                     /\ ~st.aborted
       IN IF elapsed_ms >= st.hard_time_ms
          THEN [ret |-> TRUE, aborted |-> TRUE, stop_flag |-> flag \/ raised]
          ELSE [ret |-> FALSE, aborted |-> st.aborted, stop_flag |-> flag \/ raised]
  ELSE [ret |-> FALSE, aborted |-> st.aborted, stop_flag |-> flag]

\* should_abort: its return value, state.aborted and the stop flag after it.
should_abort(st, flag, elapsed_ms) ==
  IF flag THEN [ret |-> TRUE, aborted |-> TRUE, stop_flag |-> TRUE]
  ELSE IF st.use_time /\ st.hard_time_ms > 0
  THEN LET raised == /\ st.soft_time_ms > 0
                     /\ elapsed_ms >= st.soft_time_ms
                     /\ ~st.aborted
       IN IF elapsed_ms >= st.hard_time_ms
          THEN [ret |-> TRUE, aborted |-> TRUE, stop_flag |-> raised]
          ELSE [ret |-> FALSE, aborted |-> st.aborted, stop_flag |-> raised]
  ELSE [ret |-> FALSE, aborted |-> st.aborted, stop_flag |-> FALSE]

\* The first lines of negamax (401-409) and of qsearch (999-1007): count the
\* node, give up when the node cap is passed, then ask should_abort.
EnterNode(st, flag, elapsed_ms) ==
  LET counted == [st EXCEPT !.nodes = IF @ < MaxNodes THEN @ + 1 ELSE @]
      sa == should_abort(counted, flag, elapsed_ms)
  IN IF counted.node_cap >= 0 /\ counted.nodes > counted.node_cap
     THEN [state |-> [counted EXCEPT !.aborted = TRUE],
           stop_flag |-> flag, returns |-> TRUE]
     ELSE [state |-> [counted EXCEPT !.aborted = sa.aborted],
           stop_flag |-> sa.stop_flag, returns |-> sa.ret]

\* is_root_excluded as it would be if it never found the move.
is_root_excluded_never(st, move, ply) == FALSE

\* is_root_excluded
is_root_excluded(st, move, ply) ==
  /\ ply = 0
  /\ st.root_exclude_count > 0
  /\ \E idx \in 1 .. st.root_exclude_count : st.root_excludes[idx] = move

\* search, lines 1144-1227: SearchState and the locals before the loop.
InitialState(limits) ==
  [nodes |-> 0,
   node_cap |-> limits.nodes,
   aborted |-> FALSE,
   root_exclude_count |-> 0,
   root_excludes |-> [idx \in 1 .. MaxMultiPV |-> MoveNull],
   hard_time_ms |-> limits.budget.hard_ms,
   soft_time_ms |-> IF limits.budget.hard_ms > 0
                    THEN (IF limits.budget.soft_ms < limits.budget.hard_ms
                          THEN limits.budget.soft_ms ELSE limits.budget.hard_ms)
                    ELSE 0,
   use_time |-> limits.budget.hard_ms > 0]

\* A default-constructed PVLine.
EmptyLine == [best |-> MoveNull, pv |-> <<>>, eval |-> 0]

\* The SearchResult after lines 1209-1212.
EmptyResult ==
  [best |-> MoveNull, pv |-> <<>>, lines |-> <<>>, depth |-> 0, eval |-> 0,
   aborted |-> FALSE]

InitialLocals(limits, root) ==
  [max_depth |-> IF limits.depth > 0 THEN limits.depth ELSE 1,
   active_multipv |-> IF limits.multipv > 0 THEN limits.multipv ELSE 1,
   multipv_lines |-> [idx \in 1 .. (IF limits.multipv > 0 THEN limits.multipv ELSE 1)
                        |-> EmptyLine],
   have_previous |-> [idx \in 1 .. (IF limits.multipv > 0 THEN limits.multipv ELSE 1)
                        |-> FALSE],
   have_completed |-> FALSE,
   current_depth |-> 1,
   pv_index |-> 0,
   produced_lines |-> 0,
   aborted_depth |-> FALSE,
   use_aspiration |-> FALSE,
   attempt |-> 0,
   score |-> 0,
   root_moves |-> generate_moves(root, GenAll).out]

\* The limits a search is started with: any depth with one line, the
\* shallower depths with more lines; a node cap or a time budget or neither.
SearchLimits ==
  {limits \in [depth : 1 .. MaxDepth, multipv : 1 .. MaxMultiPV, nodes : NodeCaps,
               budget : TimeBudgets] :
     /\ limits.multipv = 1 \/ limits.depth < MaxDepth
     /\ limits.nodes = -1 \/ limits.budget.hard_ms = 0}

\* A call of negamax or qsearch on the C++ stack.  `site` is where the call
\* stands: at its entry checks, in its body before any child is searched, or
\* at one of the places that search a child; `wait` says a child is running.
NewFrame(fn, ply, depth, in_pv, previous_null, entered_stopped) ==
  [fn |-> fn, ply |-> ply, depth |-> depth, in_pv |-> in_pv,
   previous_null |-> previous_null, site |-> "entry", idx |-> 0, wait |-> FALSE,
   researched |-> FALSE, entered_stopped |-> entered_stopped]

\* The places of negamax that search a child, in program order: razoring
\* (494-528), null move (530-566), its verification (567-590), multi-cut
\* (655-716), singular extension (718-720) and the move loop (730-959).
SiteOrder == <<"body", "razor", "null", "verify", "multicut", "singular", "loop">>

SiteAllowed(f, site) ==
  CASE site = "razor" -> f.ply > 0 /\ ~f.in_pv /\ ~f.previous_null
    [] site = "null" -> ~f.previous_null /\ f.depth >= 2
    [] site = "verify" -> FALSE
    [] site = "multicut" -> f.ply > 0 /\ ~f.in_pv /\ ~f.previous_null
    [] site = "singular" -> ~f.previous_null /\ f.depth >= kSingularMinDepth
    [] site = "loop" -> TRUE
    [] OTHER -> FALSE

\* The sites negamax can reach next after leaving `site`.
SitesAfter(f, site) ==
  {SiteOrder[j] : j \in {k \in 1 .. Len(SiteOrder) :
                           /\ k > IndexOf(SiteOrder, site)
                           /\ SiteAllowed(f, SiteOrder[k])}}

\* How many children a site may search.
SiteCount(f, root_moves) ==
  IF f.site \in {"razor", "null", "verify", "tail"} THEN 1
  ELSE IF f.ply = 0 THEN Len(root_moves)
  ELSE NodeMoves

\* The call a site makes.
ChildOf(f, flag) ==
  CASE f.site = "tail" -> NewFrame("qsearch", f.ply, 0, FALSE, FALSE, flag)
    [] f.site = "razor" -> NewFrame("qsearch", f.ply, 0, FALSE, FALSE, flag)
    [] f.site = "null" -> NewFrame("negamax", f.ply + 1, f.depth - 2, FALSE, TRUE, flag)
    [] f.site = "verify" -> NewFrame("negamax", f.ply, f.depth - 2, FALSE, TRUE, flag)
    [] f.site = "multicut" -> NewFrame("negamax", f.ply + 1, f.depth - 1, FALSE, FALSE, flag)
    [] f.site = "singular" -> NewFrame("negamax", f.ply + 1, f.depth - 2, FALSE,
                                       f.previous_null, flag)
    [] f.site = "loop" -> NewFrame("negamax", f.ply + 1, f.depth - 1,
                                   f.in_pv /\ f.idx = 0, FALSE, flag)
    [] f.site = "qloop" -> NewFrame("qsearch", f.ply + 1, 0, FALSE, FALSE, flag)

\* tables.tt as search uses it: the entries stored so far, by key.  The key
\* of a position is the line of moves from the root: <<>> is the root, <<i>>
\* the position after root move i, <<0>> the root after a null move.  The
\* table follows the entries of the root's key, the one key search itself
\* probes (1476); a store under another key is performed and counted in the
\* history, and its entry is not kept.
FollowedKeys == {<<>>}

EmptyTable == [key \in {} |-> [depth |-> 0, best_move |-> MoveNull]]

\* tables.tt.probe(key, entry) as negamax (441) and search (1476) call it
tt_probe(table, key) ==
  IF key \in DOMAIN table THEN [hit |-> TRUE, entry |-> table[key]]
  ELSE [hit |-> FALSE, entry |-> [depth |-> 0, best_move |-> MoveNull]]

\* tables.tt.store(key, entry) as negamax calls it (992)
tt_store(table, key, entry) ==
  IF key \in FollowedKeys
  THEN [k \in DOMAIN table \cup {key} |-> IF k = key THEN entry ELSE table[k]]
  ELSE table

\* The key of the position of the running call.
RECURSIVE KeyOfCall(_, _)
KeyOfCall(stk, k) ==
  IF k <= 1 THEN <<>>
  ELSE IF stk[k].ply = stk[k - 1].ply THEN KeyOfCall(stk, k - 1)
  ELSE Append(KeyOfCall(stk, k - 1),
              IF stk[k - 1].site = "null" THEN 0 ELSE stk[k - 1].idx + 1)

\* negamax, lines 982-992, as it would be without the test of state.aborted.
store_unless_aborted_without_test(table, st, key, entry) ==
  [table |-> tt_store(table, key, entry), stored |-> TRUE]

\* negamax, lines 982-992: the end of the function stores the node's entry
\* unless the search was aborted.
store_unless_aborted(table, st, key, entry) ==
  IF st.aborted THEN [table |-> table, stored |-> FALSE]
  ELSE [table |-> tt_store(table, key, entry), stored |-> TRUE]

\* The entry the running call would store: its depth and, at the root, the
\* move the principal variation starts with.
EntryOf(f, pv) ==
  [depth |-> f.depth,
   best_move |-> IF f.ply = 0 /\ pv # <<>> THEN pv[1] ELSE MoveNull]

\* search, lines 1450-1452: the test the fallback applies to a move, made
\* on the root: the side to move after the move is not in check.
fallback_accepts(made) == ~in_check(made.pos, made.pos.side)

\* search, lines 1446-1472: the first move of the root that passes the test.
RECURSIVE FallbackMove(_, _, _)
FallbackMove(root, moves, i) ==
  IF i > Len(moves) THEN MoveNull
  ELSE IF fallback_accepts(make(root, moves[i])) THEN moves[i]
  ELSE FallbackMove(root, moves, i + 1)

\* search, lines 1454-1468 and 1478-1491: a move becomes the best move.
WithBest(res, move) ==
  IF res.best = MoveNull /\ move # MoveNull
  THEN [res EXCEPT
          !.best = move,
          !.pv = <<move>>,
          !.lines = IF res.lines = <<>>
                    THEN <<[best |-> move, pv |-> <<move>>, eval |-> res.eval]>>
                    ELSE [res.lines EXCEPT
                            ![1] = [@ EXCEPT !.best = move,
                                             !.pv = IF @ = <<>> THEN <<move>> ELSE @]]]
  ELSE res

\* search, lines 1446-1472: a null best move is replaced by the fallback move.
LegalFallback(root, moves, res) ==
  IF res.best = MoveNull THEN WithBest(res, FallbackMove(root, moves, 1)) ELSE res

\* search, line 1419-1421.
KeptResult(st, locals, res, completed) ==
  IF st.aborted /\ locals.have_completed THEN completed ELSE res

\* search, lines 1419-1494: what search returns.  A null best move is
\* replaced by the fallback move (1446-1472), and failing that by the move
\* of the root's table entry (1475-1492).
FinalResult(root, table, st, locals, res, completed) ==
  [WithBest(LegalFallback(root, locals.root_moves,
                          KeptResult(st, locals, res, completed)),
            tt_probe(table, <<>>).entry.best_move)
     EXCEPT !.aborted = st.aborted]

\* search, lines 1388-1403: the result after an iteration's lines are in.
IterationResult(locals, res) ==
  LET available == IF locals.active_multipv < locals.produced_lines
                   THEN locals.active_multipv ELSE locals.produced_lines
      lines == SubSeq(locals.multipv_lines, 1, available)
  IN IF available > 0
     THEN [res EXCEPT !.lines = lines, !.best = lines[1].best, !.pv = lines[1].pv,
                      !.eval = lines[1].eval]
     ELSE res

(***************************************************************************)
(* hash.cpp: the transposition table.  entries_ is a row of buckets of     *)
(* kBucketSize slots; a slot whose key is 0 is empty.                      *)
(***************************************************************************)
\* TT::kBucketSize
kBucketSize == 4

\* sizeof(TTEntry): 24 bytes of fields, alignas(16).
kEntryBytes == 32

\* Most stores and set_generation calls on one table.
MaxTableOps == 7

\* The keys stored: 0 (the empty key) and enough others to overfill a bucket.
MaxKey == 5

Max2(a, b) == IF a >= b THEN a ELSE b

\* compute_bucket_count
compute_bucket_count(megabytes) ==
  Max2(1, Max2(kBucketSize, (megabytes * 1024 * 1024) \div kEntryBytes) \div kBucketSize)

\* TTEntry{}
EmptyEntry ==
  [key |-> 0, best_move |-> MoveNull, score |-> 0, static_eval |-> 0,
   depth |-> 0, generation |-> 0, bound |-> 0]

\* TT::TT(megabytes)
NewTable(megabytes) ==
  [bucket_count |-> compute_bucket_count(megabytes),
   entries |-> [i \in 0 .. compute_bucket_count(megabytes) * kBucketSize - 1 |-> EmptyEntry],
   generation |-> 0]

\* age_difference: the difference as a std::uint8_t.
age_difference(current, stored) == (current - stored) % 256

\* TT::bucket_index
bucket_index(t, key) == IF t.bucket_count = 0 THEN 0 ELSE key % t.bucket_count

\* TT::probe, the loop over the bucket from `slot` on: the first slot
\* whose key is `key`.
RECURSIVE ProbeFrom(_, _, _, _)
ProbeFrom(t, base, key, slot) ==
  IF slot >= kBucketSize THEN [hit |-> FALSE, out |-> EmptyEntry]
  ELSE IF t.entries[base + slot].key = key
  THEN [hit |-> TRUE, out |-> t.entries[base + slot]]
  ELSE ProbeFrom(t, base, key, slot + 1)

\* TT::probe
probe(t, key) == ProbeFrom(t, bucket_index(t, key) * kBucketSize, key, 0)

\* The replacement metric of a slot as it would be without the slot's age.
victim_metric_depth_only(generation, entry) == 255 - entry.depth

\* TT::store, lines 90-91: the replacement metric of a slot.
victim_metric(generation, entry) ==
  age_difference(generation, entry.generation) * 256 + (255 - entry.depth)

\* TT::store, lines 87-89 and 92-95: the locals after one slot that does
\* not hold the key.
ScanSlot(acc, slot, entry, metric) ==
  [target |-> acc.target,
   empty_slot |-> IF entry.key = 0 /\ acc.empty_slot = kBucketSize
                  THEN slot ELSE acc.empty_slot,
   replacement_slot |-> IF metric > acc.worst_metric THEN slot
                        ELSE acc.replacement_slot,
   worst_metric |-> IF metric > acc.worst_metric THEN metric ELSE acc.worst_metric]

\* TT::store, lines 81-96: the loop over the bucket, which ends at the
\* first slot that holds the key.
RECURSIVE ScanBucket(_, _, _, _, _)
ScanBucket(t, base, key, slot, acc) ==
  IF slot >= kBucketSize THEN acc
  ELSE IF t.entries[base + slot].key = key THEN [acc EXCEPT !.target = slot]
  ELSE ScanBucket(t, base, key, slot + 1,
                  ScanSlot(acc, slot, t.entries[base + slot],
                           victim_metric(t.generation, t.entries[base + slot])))

\* TT::store, lines 98-104: the slot that is written.
TargetOf(acc) ==
  IF acc.target # kBucketSize THEN acc.target
  ELSE IF acc.empty_slot # kBucketSize THEN acc.empty_slot
  ELSE acc.replacement_slot

\* The write as it would be without `dest.generation = generation_`.
WriteSlotKeepsGeneration(t, idx, key, in) ==
  [t EXCEPT !.entries[idx] = [in EXCEPT !.key = key]]

\* TT::store, lines 106-110: dest = in, then the key and the generation.
WriteSlot(t, idx, key, in) ==
  [t EXCEPT !.entries[idx] = [in EXCEPT !.key = key, !.generation = t.generation]]

\* TT::store
store(t, key, in) ==
  WriteSlot(t,
            bucket_index(t, key) * kBucketSize
              + TargetOf(ScanBucket(t, bucket_index(t, key) * kBucketSize, key, 0,
                                    [target |-> kBucketSize, empty_slot |-> kBucketSize,
                                     replacement_slot |-> 0, worst_metric |-> -1])),
            key, in)

\* TT::store, lines 82-106: the index of the slot `dest` refers to.
WrittenSlot(t, key) ==
  bucket_index(t, key) * kBucketSize
    + TargetOf(ScanBucket(t, bucket_index(t, key) * kBucketSize, key, 0,
                          [target |-> kBucketSize, empty_slot |-> kBucketSize,
                           replacement_slot |-> 0, worst_metric |-> -1]))

\* TT::set_generation
set_generation(t, gen) == [t EXCEPT !.generation = gen]

(***************************************************************************)
(* timeman.cpp: the time budget.  Times are std::int64_t milliseconds; the *)
(* values used stay far below the range of the type.                       *)
(***************************************************************************)
kSafetyMarginMs == 50
kMinMoveTimeMs == 10
kHardSlackMs == 50

Min2(a, b) == IF a <= b THEN a ELSE b

\* a / b of C++ for b > 0: the quotient truncated towards zero.
TruncDiv(a, b) == IF a >= 0 THEN a \div b ELSE -((-a) \div b)

\* std::clamp(v, lo, hi)
clamp(v, lo, hi) == IF v < lo THEN lo ELSE IF hi < v THEN hi ELSE v

\* TimeBudget{}
NoBudget == [soft_ms |-> 0, hard_ms |-> 0]

\* The divisor as it would be with max(movestogo, 20).
divisor_at_least_twenty(movestogo) == Max2(movestogo, 20)

\* compute_time_budget, line 54: the divisor of the remaining time.
divisor_of(movestogo) == IF movestogo > 0 THEN movestogo ELSE 20

\* compute_time_budget, lines 55-57
base_time_of(time_left, movestogo) ==
  Max2(TruncDiv(time_left, Max2(divisor_of(movestogo), 1)), 0)

\* compute_time_budget, lines 61-66
max_allowed_of(time_left) ==
  IF time_left > Min2(kSafetyMarginMs, Max2(TruncDiv(time_left, 10), 0))
  THEN time_left - Min2(kSafetyMarginMs, Max2(TruncDiv(time_left, 10), 0))
  ELSE time_left

\* compute_time_budget, lines 67-72: the allocation from base_time + inc_time.
allocate_of(allocate, max_allowed, time_left) ==
  clamp(IF Min2(allocate, max_allowed) < kMinMoveTimeMs
        THEN Min2(max_allowed, Max2(kMinMoveTimeMs, 0))
        ELSE Min2(allocate, max_allowed),
        0, time_left)

\* The budget of an allocation as it would be without the cap at the
\* remaining time.
clock_budget_slack_only(allocate, time_left) ==
  [soft_ms |-> allocate, hard_ms |-> allocate + kHardSlackMs]

\* compute_time_budget, lines 74-82: the budget of an allocation.
clock_budget(allocate, time_left) ==
  [soft_ms |-> allocate,
   hard_ms |-> Max2(Min2(time_left, Max2(allocate + kHardSlackMs, allocate)), allocate)]

\* The allocation of the no-clock case as it would be without the minimum.
increment_alloc_without_minimum(increment) == TruncDiv(increment, 2)

\* compute_time_budget, lines 45-46: the allocation when only an increment
\* is given.
increment_alloc(increment) == Max2(TruncDiv(increment, 2), kMinMoveTimeMs)

\* compute_time_budget, lines 31-82, from the moving side's clock and
\* increment.
budget_of_clock(time_left, increment, movestogo) ==
  IF time_left < 0 /\ increment <= 0 THEN NoBudget
  ELSE IF time_left < 0
  THEN [soft_ms |-> increment_alloc(increment),
        hard_ms |-> increment_alloc(increment) + kHardSlackMs]
  ELSE clock_budget(allocate_of(base_time_of(time_left, movestogo)
                                  + Max2(TruncDiv(increment, 2), 0),
                                max_allowed_of(time_left), time_left),
                    time_left)

\* compute_time_budget as it would be if a movetime of 0 counted as none.
compute_time_budget_positive_movetime(limits, stm) ==
  IF limits.infinite THEN NoBudget
  ELSE IF limits.movetime_ms > 0
  THEN [soft_ms |-> Max2(limits.movetime_ms, kMinMoveTimeMs),
        hard_ms |-> Max2(limits.movetime_ms, kMinMoveTimeMs) + kHardSlackMs]
  ELSE budget_of_clock(IF stm = White THEN limits.wtime_ms ELSE limits.btime_ms,
                       IF stm = White THEN limits.winc_ms ELSE limits.binc_ms,
                       limits.movestogo)

\* compute_time_budget
compute_time_budget(limits, stm) ==
  IF limits.infinite THEN NoBudget
  ELSE IF limits.movetime_ms >= 0
  THEN [soft_ms |-> Max2(limits.movetime_ms, kMinMoveTimeMs),
        hard_ms |-> Max2(limits.movetime_ms, kMinMoveTimeMs) + kHardSlackMs]
  ELSE budget_of_clock(IF stm = White THEN limits.wtime_ms ELSE limits.btime_ms,
                       IF stm = White THEN limits.winc_ms ELSE limits.binc_ms,
                       limits.movestogo)

(***************************************************************************)
(* search_stack.cpp: the per-ply frames.                                   *)
(***************************************************************************)
kImprovingSlack == 30

\* The frames modelled: plies 0 .. MaxStackPly - 1 of the kMaxPly frames.
MaxStackPly == 4

\* make_frame()
make_frame ==
  [parent_move |-> 0, captured |-> PieceTypeNone, static_eval |-> 0,
   previous_static_eval |-> 0, has_static_eval |-> FALSE,
   has_previous_eval |-> FALSE, improving |-> FALSE]

\* SearchStack::reset, and prepare_root, which resets and makes frame 0 anew.
prepare_root == [ply \in 0 .. MaxStackPly - 1 |-> make_frame]

\* SearchStack::prepare_child
prepare_child(frames, parent_ply, child_ply, move, captured) ==
  [frames EXCEPT ![child_ply] =
     IF child_ply >= 2 /\ frames[child_ply - 2].has_static_eval
     THEN [make_frame EXCEPT !.parent_move = move, !.captured = captured,
                             !.previous_static_eval = frames[child_ply - 2].static_eval,
                             !.has_previous_eval = TRUE]
     ELSE [make_frame EXCEPT !.parent_move = move, !.captured = captured]]

\* set_static_eval, lines 62-67: the frame with the eval recorded and the
\* eval of two plies above taken over.
EvalRecorded(frames, ply, eval) ==
  IF ply >= 2 /\ frames[ply - 2].has_static_eval
  THEN [frames[ply] EXCEPT !.static_eval = eval, !.has_static_eval = TRUE,
                            !.previous_static_eval = frames[ply - 2].static_eval,
                            !.has_previous_eval = TRUE]
  ELSE [frames[ply] EXCEPT !.static_eval = eval, !.has_static_eval = TRUE]

\* The flag as it would be with a strict comparison.
improving_strictly(frames, frame, ply, eval) ==
  IF frame.has_previous_eval
  THEN eval > frame.previous_static_eval - kImprovingSlack
  ELSE IF ply > 0 THEN frames[ply - 1].improving ELSE FALSE

\* set_static_eval, lines 68-72
improving_of(frames, frame, ply, eval) ==
  IF frame.has_previous_eval
  THEN eval >= frame.previous_static_eval - kImprovingSlack
  ELSE IF ply > 0 THEN frames[ply - 1].improving ELSE FALSE

\* SearchStack::set_static_eval
set_static_eval(frames, ply, eval) ==
  [frames EXCEPT ![ply] =
     [EvalRecorded(frames, ply, eval) EXCEPT
        !.improving = improving_of(frames, EvalRecorded(frames, ply, eval), ply, eval)]]

\* SearchStack::is_improving
is_improving(frames, ply) ==
  IF ply < 0 \/ ply >= MaxStackPly THEN FALSE ELSE frames[ply].improving

(***************************************************************************)
(* moveorder.cpp and search.cpp: the history table and its update in the   *)
(* move loop of negamax.                                                   *)
(***************************************************************************)
kQuietHistoryBonus == 128
kMaxHistory == 32000

\* is_quiet_move
is_quiet_move(move) == move_flag(move) \in {Quiet, DoublePush}

\* HistoryTable::index, with kStride = 64 * 64
HistoryTable_index(color, move) ==
  color_index(color) * 4096 + from_square(move) * 64 + to_square(move)

\* HistoryTable::get
HistoryTable_get(values, color, move) == values[HistoryTable_index(color, move)]

\* HistoryTable::add
HistoryTable_add(values, color, move, delta) ==
  [values EXCEPT ![HistoryTable_index(color, move)] =
     clamp(@ + delta, -kMaxHistory, kMaxHistory)]

\* update_history
update_history(values, side, move, bonus) ==
  IF move = 0 THEN values ELSE HistoryTable_add(values, side, move, bonus)

\* negamax, lines 945-958: the penalty of the failed quiets, in their order.
RECURSIVE PenalizeFailed(_, _, _, _, _)
PenalizeFailed(values, side, failed_quiets, idx, penalty) ==
  IF idx > Len(failed_quiets) THEN values
  ELSE PenalizeFailed(update_history(values, side, failed_quiets[idx], -penalty),
                      side, failed_quiets, idx + 1, penalty)

\* negamax, lines 917-930: a move that raised alpha, as it would be without
\* a history update.
RaisedAlphaNoBonus(values, side, move, depth) == values

\* negamax, lines 917-930: the history after a move that raised alpha.
RaisedAlpha(values, side, move, depth) ==
  IF is_quiet_move(move)
  THEN update_history(values, side, move, kQuietHistoryBonus * depth * depth)
  ELSE values

\* negamax, lines 932-960: the history after a move that reached beta.
BetaCutoff(values, side, move, depth, failed_quiets) ==
  PenalizeFailed(IF is_quiet_move(move)
                 THEN update_history(values, side, move,
                                     kQuietHistoryBonus * depth * depth)
                 ELSE values,
                 side, failed_quiets, 1, kQuietHistoryBonus * depth)

\* negamax, lines 900-903: the failed quiets after a move scored.
FailedAfter(nd, move, score) ==
  IF is_quiet_move(move) /\ score <= nd.alpha
  THEN Append(nd.failed_quiets, move) ELSE nd.failed_quiets

\* negamax, lines 900-961: the history after a move of the loop scored.
HistoryAfterMove(values, nd, move, score, aborted) ==
  IF aborted \/ score <= nd.alpha THEN values
  ELSE IF score >= nd.beta
  THEN BetaCutoff(RaisedAlpha(values, nd.moving_side, move, nd.depth),
                  nd.moving_side, move, nd.depth, FailedAfter(nd, move, score))
  ELSE RaisedAlpha(values, nd.moving_side, move, nd.depth)

(***************************************************************************)
(* Position::make_null and unmake_null, which search.cpp calls (560, 563). *)
(* The null move swaps the side to move (XOR of the side key), clears any  *)
(* en-passant square (XOR of the file key), takes a snapshot of the state  *)
(* before and leaves the pieces untouched; unmake_null restores from the   *)
(* snapshot.                                                               *)
(***************************************************************************)
make_null(P) ==
  [pos |-> [set_en_passant(P, SquareNone) EXCEPT
              !.side = flip(P.side),
              !.zobrist = Xor(@, {ZSide})],
   undo |-> [key |-> P.zobrist, move |-> 0, captured |-> PieceNone,
             castling |-> P.castling, halfmove_clock |-> P.halfmove_clock,
             en_passant |-> P.ep_square]]

unmake_null(P, undo) ==
  [set_en_passant([P EXCEPT !.side = flip(P.side)], undo.en_passant) EXCEPT
     !.castling = undo.castling,
     !.halfmove_clock = undo.halfmove_clock,
     !.zobrist = undo.key]

(***************************************************************************)
(* search.cpp: the moves search makes and takes back on the position it    *)
(* is given.                                                               *)
(***************************************************************************)
\* count_non_pawn_material
count_non_pawn_material(P, color) ==
  Cardinality(UNION {P.pieces[color_index(color)][type] : type \in Knight .. Queen})

\* has_sufficient_material_for_null
has_sufficient_material_for_null(P) ==
  /\ count_non_pawn_material(P, P.side) # 0
  /\ count_non_pawn_material(P, P.side) + count_non_pawn_material(P, flip(P.side)) > 1

\* The call of negamax or qsearch for the child has returned, as it would
\* be if an aborted search returned before taking the move back.
ChildReturnedAbortFirst(P, frame, aborted) ==
  IF aborted THEN P
  ELSE IF frame.move = 0 THEN unmake_null(P, frame.undo)
  ELSE unmake(P, frame.move, frame.undo)

\* negamax 563, 690, 896, should_extend_singular 366, qsearch 1020 and
\* after its capture loop: the call for the child has returned, aborted or
\* not, and the move is taken back before anything else.
ChildReturned(P, frame, aborted) ==
  IF frame.move = 0 THEN unmake_null(P, frame.undo)
  ELSE unmake(P, frame.move, frame.undo)

\* search, lines 1450-1453: a move of the pass is made, the test for check
\* is taken and the move is taken back.
FallbackTry(P, m) ==
  LET made == make(P, m)
  IN [pos |-> unmake(made.pos, m, made.undo),
      legal |-> ~in_check(made.pos, made.pos.side)]

\* search, lines 1446-1473: the pass over the generated moves of the root
\* when no best move was found, up to the first move that passes the test.
RECURSIVE FallbackPass(_, _, _)
FallbackPass(P, moves, i) ==
  IF i > Len(moves) THEN P
  ELSE LET tried == CHOOSE t \in {FallbackTry(P, moves[i])} : TRUE
       IN IF tried.legal THEN tried.pos ELSE FallbackPass(tried.pos, moves, i + 1)

(***************************************************************************)
(* search.cpp: the aspiration window of a root search.                     *)
(***************************************************************************)
kEvalInfinity == 30000
kAspirationBase == 64
kAspirationScale == 16

\* aspiration_margin
aspiration_margin(depth) ==
  clamp(kAspirationBase + kAspirationScale * Max2(depth - 1, 0), 32, kEvalInfinity)

\* The full window, with aspiration switched off.
FullWindow(a) ==
  [a EXCEPT !.use_aspiration = FALSE, !.alpha = -kEvalInfinity, !.beta = kEvalInfinity]

\* search, lines 1250-1264: the first window of the loop.
FirstWindow(depth, have_previous, previous_score) ==
  LET window == aspiration_margin(depth)
      alpha == Max2(previous_score - window, -kEvalInfinity)
      beta == Min2(previous_score + window, kEvalInfinity)
  IN IF have_previous /\ alpha < beta
     THEN [alpha |-> alpha, beta |-> beta, window |-> window, use_aspiration |-> TRUE]
     ELSE [alpha |-> -kEvalInfinity, beta |-> kEvalInfinity, window |-> window,
           use_aspiration |-> FALSE]

\* search, lines 1321-1329 and 1348-1356: the window is doubled and centred
\* on the score; a window that is empty or reaches both ends becomes the
\* full window.
Widened(a, score) ==
  LET window == Min2(a.window * 2, kEvalInfinity)
      alpha == Max2(score - window, -kEvalInfinity)
      beta == Min2(score + window, kEvalInfinity)
  IN IF alpha >= beta \/ (alpha <= -kEvalInfinity /\ beta >= kEvalInfinity)
     THEN FullWindow([a EXCEPT !.window = window])
     ELSE [a EXCEPT !.window = window, !.alpha = alpha, !.beta = beta]

\* search, lines 1307-1362: the window after a search that failed low or
\* high.
AfterFail(a, score) ==
  IF score <= a.alpha
  THEN IF a.alpha <= -kEvalInfinity THEN FullWindow(a) ELSE Widened(a, score)
  ELSE IF a.beta >= kEvalInfinity THEN FullWindow(a) ELSE Widened(a, score)

(***************************************************************************)
(* search.cpp: the extension of a move in the move loop of negamax.        *)
(***************************************************************************)
\* is_capture_move
is_capture_move(move) == move_flag(move) \in {Capture, EnPassant, PromotionCapture}

\* negamax, lines 766-768: the move takes back on the square of the parent's
\* capture.
IsRecapture(c) ==
  /\ c.enable_recapture_extension
  /\ c.depth <= c.recapture_extension_depth
  /\ c.parent_move # 0
  /\ c.parent_capture # PieceTypeNone
  /\ is_capture_move(c.move)
  /\ to_square(c.move) = to_square(c.parent_move)

\* negamax, line 772
IsCheckExtension(c) ==
  c.enable_check_extension /\ c.gives_check /\ c.depth <= c.check_extension_depth

\* negamax, lines 762-776: extension starts at 0, each condition that holds
\* sets it to std::max(extension, 1), and std::min(extension, 2) ends it.
extension_of(c) ==
  Min2(Max2(Max2(Max2(0, IF c.singular_hit THEN 1 ELSE 0),
                 IF IsRecapture(c) THEN 1 ELSE 0),
            IF IsCheckExtension(c) THEN 1 ELSE 0),
       2)

\* negamax, line 777
next_depth_of(c) == c.depth - 1 + extension_of(c)

(***************************************************************************)
(* uci.cpp: the command queue and the search worker.  Two threads run: the *)
(* controller, which calls the public functions of SearchWorker, and the   *)
(* worker thread in run().  Each step below is one access to the shared    *)
(* state (an atomic load or store, a queue slot, a mutex, a written line). *)
(* The search inside the Start handler is an input: what is kept of it is  *)
(* that it calls the progress and currmove callbacks and returns a result. *)
(***************************************************************************)
\* SpscQueue<SearchCommand, Capacity>: the number of slots (32 in uci.cpp).
QueueCapacity == 3

\* The public functions the controller calls in one run.
MaxCalls == 4

\* The calls of start_search among them.
MaxStarts == 2

\* The lines a search writes through its callbacks.
MaxInfo == 1

\* SpscQueue::increment
increment(idx) == (idx + 1) % QueueCapacity

\* SearchCommand{}: `search` names the position and the limits of a Start by
\* the call of start_search that built them; `seq` tells the commands apart.
NoCommand == [type |-> "Stop", search |-> 0, seq |-> 0]

\* A default-constructed queue.
EmptyQueue ==
  [buffer |-> [slot \in 0 .. QueueCapacity - 1 |-> NoCommand], head |-> 0, tail |-> 0]

\* SpscQueue::push, lines 60-63, as it would be without the test for a full
\* queue.
push_full_never(q) == FALSE

\* SpscQueue::push, lines 59-63: the queue is full.
push_full(q) == increment(q.head) = q.tail

\* SpscQueue::pop, lines 70-73, as it would be without the test for an
\* empty queue.
pop_empty_never(q) == FALSE

\* SpscQueue::pop, lines 70-73: the queue is empty.
pop_empty(q) == q.tail = q.head

\* The commands in the queue, oldest first.
RECURSIVE QueueContents(_, _)
QueueContents(q, idx) ==
  IF idx = q.head THEN <<>>
  ELSE <<q.buffer[idx]>> \o QueueContents(q, increment(idx))

\* SearchSnapshot{}: every field carries the search that wrote it.
SnapshotFields == <<"position", "result", "limits", "stopped">>

NoSnapshot ==
  [position |-> [search |-> 0],
   result |-> [search |-> 0, has_lines |-> FALSE],
   limits |-> [search |-> 0],
   stopped |-> [search |-> 0, value |-> FALSE]]

\* std::lock_guard on snapshot_mutex_ as it would be if it never waited.
lock_guard_no_wait(mutex) == TRUE

\* std::lock_guard<std::mutex> lock(snapshot_mutex_) (286, 371): the guard
\* is constructed when the mutex is free.
lock_guard(mutex) == mutex = "free"

\* run, lines 321-422, with the store to busy_ moved in front of the lines
\* the handler writes.
StartHandlerIdleFirst ==
  <<"w_start", "w_clear", "w_search", "w_stopped", "w_snap", "w_idle", "w_info",
    "w_best", "w_notify", "pop">>

\* run, lines 321-422, without the bestmove line.
StartHandlerWithoutBestmove ==
  <<"w_start", "w_clear", "w_search", "w_stopped", "w_snap", "w_info", "w_idle",
    "w_notify", "pop">>

\* run, lines 321-422: the steps of the Start handler in program order: the
\* stores to busy_ and stop_flag_, search, the load of stop_flag_, the
\* snapshot, the result's info lines, the bestmove line, the store to busy_
\* and notify_all; then the loop pops the next command.
StartHandler ==
  <<"w_start", "w_clear", "w_search", "w_stopped", "w_snap", "w_info", "w_best",
    "w_idle", "w_notify", "pop">>

\* The step of the Start handler that follows `step`.
StepAfter(step) ==
  StartHandler[1 + CHOOSE i \in 1 .. Len(StartHandler) - 1 : StartHandler[i] = step]

\* run, lines 426-427, as it would be if Quit left the switch like Stop
\* instead of returning from run.
handler_quit_breaks(type) ==
  CASE type = "Start" -> "w_start"
    [] type = "Stop" -> "w_stop"
    [] type = "Quit" -> "pop"

\* run, lines 320-428: the switch on the command's type.
handler(type) ==
  CASE type = "Start" -> "w_start"
    [] type = "Stop" -> "w_stop"
    [] type = "Quit" -> "exited"

\* request_stop, lines 265-267, as it would be without the early return.
request_stop_returns_never(is_busy) == FALSE

\* request_stop, lines 265-267: the call returns when busy_ is false.
request_stop_returns(is_busy) == ~is_busy

\* The controller before its first call.
ControllerReady ==
  [pc |-> "ready", op |-> "none", cmd |-> NoCommand, calls |-> 0, starts |-> 0,
   seq |-> 0, field |-> 0, out |-> NoSnapshot, got |-> FALSE, latest |-> 0,
   joined |-> FALSE]

\* The worker thread at the head of run().
WorkerReady ==
  [pc |-> "pop", cmd |-> NoCommand, result |-> [search |-> 0, has_lines |-> FALSE],
   stopped |-> FALSE, infos |-> 0, field |-> 0]

NoWorkerHistory ==
  [enqueued |-> <<>>, dequeued |-> <<>>, returned |-> 0, stored |-> 0,
   idle_after |-> {}]

\* Longest line of moves made from a root.
MaxPly == 2

VARIABLES
  pos,             \* the Position object (the root, while search runs)
  undo_stack,      \* the callers' Undo records, with the move each belongs to
  last_op,         \* the public operation that produced pos
  last_move,       \* the move of that operation (0 after from_fen)
  before,          \* the position as it was before the matching make
  stop_flag,       \* the std::atomic<bool> the caller hands to search
  elapsed,         \* steady_clock::now() - state.start_time, in ms
  state,           \* SearchState
  pc,              \* where search() stands
  loc,             \* the locals of search()
  result,          \* SearchResult result
  last_completed,  \* SearchResult last_completed
  pv_table,        \* row 0 of the PvTable, cut to its first move
  stack,           \* the negamax / qsearch calls in progress
  ret,             \* what the last call returned: its alpha, or a value
  tt,              \* tables.tt: the entries stored, by the position's key
  hist,            \* history: who raised the flag, what was complete, visits
  queue,           \* SearchWorker::queue_: buffer_, head_ and tail_
  busy,            \* busy_
  shutdown_requested,  \* shutdown_requested_
  snapshot_mutex,  \* snapshot_mutex_: free, or the thread that holds it
  last_snapshot,   \* last_snapshot_
  has_snapshot,    \* has_snapshot_
  io_bound,        \* io_ is not null
  output,          \* the lines written through io_, in order
  ctl,             \* the controller thread: where it stands in its call
  wrk,             \* the worker thread: where it stands in run()
  whist,           \* history: commands enqueued and dequeued, searches done
  table,           \* a TT: bucket_count_, entries_ and generation_
  tt_op,           \* the last call on the table, and the table before it
  budget_call,     \* the last call of compute_time_budget and its result
  frames_,         \* SearchStack::frames_, the first MaxStackPly frames
  stack_call,      \* the ply negamax is at, and its last call on the stack
  history,         \* HistoryTable::values of state.history, on the entries used
  node,            \* the move loop of the running negamax call
  ext_call,        \* a move of the loop with its extension and next depth
  walk,            \* search's walk of the tree on the root it was given
  asp              \* the aspiration loop of one MultiPV slot at one depth

board_vars == <<pos, undo_stack, last_op, last_move, before>>

search_vars ==
  <<stop_flag, elapsed, state, pc, loc, result, last_completed, pv_table, stack,
    ret, tt, hist>>

snapshot_vars == <<snapshot_mutex, last_snapshot, has_snapshot>>

worker_vars ==
  <<queue, busy, shutdown_requested, snapshot_vars, io_bound, output, ctl, wrk,
    whist>>

table_vars == <<table, tt_op>>

frame_vars == <<frames_, stack_call>>

history_vars == <<history, node>>

\* The objects and functions that stand alone: the transposition table, the
\* time budget and the search stack.
unit_vars ==
  <<table_vars, budget_call, frame_vars, history_vars, ext_call, walk, asp>>

\* What search and the worker leave alone.
static_vars == <<board_vars, unit_vars>>

\* What the worker's steps leave alone: the board and search's own state.
other_vars ==
  <<static_vars, elapsed, state, pc, loc, result, last_completed, pv_table, stack,
    ret, tt, hist>>

vars == <<board_vars, unit_vars, search_vars, worker_vars>>

\* TT table(0), no call made yet.
TableConstructed ==
  /\ table = NewTable(0)
  /\ tt_op = [op |-> "new", key |-> 0, in |-> EmptyEntry, before |-> NewTable(0),
              count |-> 0, high |-> 0, live |-> {}]

\* compute_time_budget has not been called.
NoBudgetCall ==
  budget_call = [called |-> FALSE,
                 limits |-> [infinite |-> FALSE, movetime_ms |-> -1, wtime_ms |-> -1,
                             btime_ms |-> -1, winc_ms |-> 0, binc_ms |-> 0,
                             movestogo |-> -1],
                 stm |-> White, budget |-> NoBudget]

\* The stand-alone objects after construction.
\* SearchStack::SearchStack, with negamax not running.
StackConstructed ==
  /\ frames_ = prepare_root
  /\ stack_call = [op |-> "new", ply |-> -1, eval |-> 0]

\* The moves of the nodes modelled: three quiet moves, one of them a double
\* push, and a capture.
NodeMoveList ==
  <<make_move(12, 28, DoublePush, 0), make_move(6, 21, Quiet, 0),
    make_move(1, 18, Quiet, 0), make_move(21, 36, Capture, 0)>>

NodeMoveSet == {NodeMoveList[i] : i \in 1 .. Len(NodeMoveList)}

\* HistoryTable{}, on the entries of these moves, and no negamax call.
HistoryConstructed ==
  /\ history = [i \in {HistoryTable_index(c, m) : c \in {White, Black},
                                                  m \in NodeMoveSet} |-> 0]
  /\ node = [active |-> FALSE, depth |-> 0, alpha |-> 0, beta |-> 0,
             moving_side |-> White, tried |-> {}, failed_quiets |-> <<>>,
             visits |-> 0, move |-> 0, score |-> 0, cut |-> FALSE,
             values_before |-> history, failed_before |-> <<>>]

\* The depths of a node: 1 .. MaxLoopDepth, on both sides of the depths up to
\* which the recapture and the check extension apply (4 and 3).
MaxLoopDepth == 5

\* The moves of the loop whose extension is computed, with the state of
\* the node and of the search they are made in.
LoopMoves ==
  [depth : 1 .. MaxLoopDepth, singular_hit : BOOLEAN,
   enable_recapture_extension : BOOLEAN, recapture_extension_depth : {0, 4},
   enable_check_extension : BOOLEAN, check_extension_depth : {0, 3},
   parent_move : {0, make_move(27, 36, Capture, 0)},
   parent_capture : {PieceTypeNone, Pawn},
   move : {make_move(12, 28, DoublePush, 0), make_move(21, 36, Capture, 0)},
   gives_check : BOOLEAN]

\* No move of the loop has been made.
NoLoopMove ==
  ext_call = [made |-> FALSE, extension |-> 0, next_depth |-> 0,
              in |-> [depth |-> 1, singular_hit |-> FALSE,
                      enable_recapture_extension |-> TRUE,
                      recapture_extension_depth |-> 4,
                      enable_check_extension |-> TRUE,
                      check_extension_depth |-> 3, parent_move |-> 0,
                      parent_capture |-> PieceTypeNone,
                      move |-> make_move(12, 28, DoublePush, 0),
                      gives_check |-> FALSE]]

\* search has not been called.
NoWalk ==
  walk = [pc |-> "idle", root |-> from_fen(RootFens[1], FALSE).pos,
          aborted |-> FALSE, seen |-> {}]

\* The attempts counted; `attempt` is written to the trace only and stays at
\* this value once it has reached it.
MaxAttemptCount == 12

\* No aspiration loop runs.
NoAspiration ==
  asp = [pc |-> "idle", alpha |-> -kEvalInfinity, beta |-> kEvalInfinity,
         window |-> 0, use_aspiration |-> FALSE, attempt |-> 0, score |-> 0,
         aborted |-> FALSE, full_searched |-> FALSE]

UnitsConstructed ==
  /\ TableConstructed /\ NoBudgetCall /\ StackConstructed /\ HistoryConstructed
  /\ NoLoopMove /\ NoWalk /\ NoAspiration

\* A SearchWorker after construction and bind_io, no call made yet.
WorkerConstructed ==
  /\ queue = EmptyQueue
  /\ busy = FALSE
  /\ shutdown_requested = FALSE
  /\ snapshot_mutex = "free"
  /\ last_snapshot = NoSnapshot
  /\ has_snapshot = FALSE
  /\ output = <<>>
  /\ ctl = ControllerReady
  /\ wrk = WorkerReady
  /\ whist = NoWorkerHistory


NoHistory ==
  [stop_by |-> "none", soft_iter |-> 0, soft_in_tree |-> FALSE,
   visits_after_stop |-> 0, completed |-> EmptyResult, progress |-> <<>>,
   stored |-> FALSE, stored_aborted |-> FALSE]

\* No search is running.
SearchIdle ==
  /\ stop_flag = FALSE
  /\ elapsed = 0
  /\ state = InitialState([nodes |-> -1, budget |-> [soft_ms |-> 0, hard_ms |-> 0]])
  /\ pc = "idle"
  /\ loc = <<>>
  /\ result = EmptyResult
  /\ last_completed = EmptyResult
  /\ pv_table = <<>>
  /\ stack = <<>>
  /\ ret = "none"
  /\ tt = EmptyTable
  /\ hist = NoHistory

\* The roots that from_fen accepts.
Roots ==
  {r.pos : r \in {parsed \in {from_fen(RootFens[i], strict) :
                                 i \in DOMAIN RootFens, strict \in BOOLEAN} :
                   parsed.ok}}

Init ==
  /\ pos \in Roots
  /\ undo_stack = <<>>
  /\ last_op = "from_fen"
  /\ last_move = 0
  /\ before = pos
  /\ SearchIdle
  /\ WorkerConstructed
  /\ io_bound = TRUE
  /\ UnitsConstructed

\* What a caller does to make a move of position P: generate the moves,
\* pick one, make it on the position generate_moves left, keep the Undo.
MadeStep(move, made) == [move |-> move, pos |-> made.pos, undo |-> made.undo]

StepsOf(gen) ==
  {MadeStep(gen.out[i], make(gen.pos, gen.out[i])) : i \in 1 .. Len(gen.out)}

MakeSteps(P) == StepsOf(generate_moves(P, GenAll))

Make ==
  /\ Len(undo_stack) < MaxPly
  /\ \E step \in MakeSteps(pos) :
       /\ pos' = step.pos
       /\ undo_stack' = Append(undo_stack,
                               [move |-> step.move, undo |-> step.undo, before |-> pos])
       /\ last_op' = "make"
       /\ last_move' = step.move
       /\ before' = pos
  /\ UNCHANGED <<unit_vars, search_vars, worker_vars>>

\* The caller takes back the last move with the Undo that make filled.
Unmake ==
  /\ Len(undo_stack) > 0
  /\ pos' = unmake(pos, undo_stack[Len(undo_stack)].move,
                   undo_stack[Len(undo_stack)].undo)
  /\ undo_stack' = SubSeq(undo_stack, 1, Len(undo_stack) - 1)
  /\ last_op' = "unmake"
  /\ last_move' = undo_stack[Len(undo_stack)].move
  /\ before' = undo_stack[Len(undo_stack)].before
  /\ UNCHANGED <<unit_vars, search_vars, worker_vars>>

Next == Make \/ Unmake

Spec == Init /\ [][Next]_vars

(***************************************************************************)
(* search() as a state machine.  The searching thread takes the steps      *)
(* below; the clock and the thread that raises the stop flag run beside    *)
(* it.                                                                     *)
(***************************************************************************)
\* The positions searched: the seventh root (two legal moves, neither gives
\* check) and the eleventh (one legal move, which gives check).
SearchRoots == {from_fen(RootFens[7], FALSE).pos, from_fen(RootFens[11], FALSE).pos}

SearchInit ==
  /\ pos \in SearchRoots
  /\ undo_stack = <<>>
  /\ last_op = "from_fen"
  /\ last_move = 0
  /\ before = pos
  /\ stop_flag = FALSE
  /\ elapsed = 0
  /\ \E limits \in SearchLimits :
       /\ state = InitialState(limits)
       /\ loc = InitialLocals(limits, pos)
  /\ pc = "iter"
  /\ result = EmptyResult
  /\ last_completed = EmptyResult
  /\ pv_table = <<>>
  /\ stack = <<>>
  /\ ret = "none"
  /\ tt = EmptyTable
  /\ hist = NoHistory
  /\ WorkerConstructed
  /\ io_bound = TRUE
  /\ UnitsConstructed

Top == stack[Len(stack)]

SetTop(f) == [stack EXCEPT ![Len(stack)] = f]

\* History: should_abort has raised the flag itself (soft time), in
\* iteration `depth`, from inside the tree or from the aspiration loop.
SoftRaised(h, flag_before, flag_after, depth, in_tree) ==
  IF ~flag_before /\ flag_after
  THEN [h EXCEPT !.stop_by = "soft", !.soft_iter = depth, !.soft_in_tree = in_tree]
  ELSE h

\* The running call returns to its caller (to search() from ply 0).
ReturnTo(kind) ==
  /\ stack' = SubSeq(stack, 1, Len(stack) - 1)
  /\ ret' = kind
  /\ pc' = IF Len(stack) = 1 THEN "after" ELSE "negamax"

\* The running call calls a child.
Call(parent, child) ==
  /\ stack' = Append(SetTop([parent EXCEPT !.wait = TRUE]), child)
  /\ ret' = ret
  /\ pc' = pc

\* The clock advances.
Tick ==
  /\ pc \notin {"idle", "returned"}
  /\ state.use_time
  /\ elapsed < MaxElapsed
  /\ elapsed' = elapsed + 1
  /\ UNCHANGED <<static_vars, worker_vars, tt, stop_flag, state, pc, loc, result, last_completed,
                 pv_table, stack, ret, hist>>

\* The caller's thread raises the stop flag while search runs.
SetStop ==
  /\ pc \notin {"idle", "returned"}
  /\ ~stop_flag
  /\ stop_flag' = TRUE
  /\ hist' = [hist EXCEPT !.stop_by = "external"]
  /\ UNCHANGED <<static_vars, worker_vars, tt, elapsed, state, pc, loc, result, last_completed,
                 pv_table, stack, ret>>

\* search, lines 1226-1241: the head of the iterative-deepening loop.
IterStart ==
  /\ pc = "iter"
  /\ IF loc.current_depth > loc.max_depth
     THEN /\ pc' = "finish"
          /\ UNCHANGED <<state, loc, result>>
     ELSE /\ result' = [result EXCEPT !.depth = loc.current_depth]
          /\ IF stop_flag
             THEN /\ state' = [state EXCEPT !.aborted = TRUE]
                  /\ loc' = [loc EXCEPT !.aborted_depth = TRUE, !.produced_lines = 0]
                  /\ pc' = "finish"
             ELSE /\ state' = state
                  /\ loc' = [loc EXCEPT !.aborted_depth = FALSE, !.produced_lines = 0,
                                        !.pv_index = 0]
                  /\ pc' = "pv"
  /\ UNCHANGED <<static_vars, worker_vars, tt, stop_flag, elapsed, last_completed, pv_table, stack,
                 ret, hist>>

\* search, lines 1243-1274: the head of the multi-PV loop.
PvStart ==
  /\ pc = "pv"
  /\ IF loc.pv_index >= loc.active_multipv
     THEN /\ pc' = "iter_end"
          /\ UNCHANGED <<state, loc>>
     ELSE /\ state' = [state EXCEPT
                         !.root_exclude_count = loc.pv_index,
                         !.root_excludes =
                           [idx \in 1 .. MaxMultiPV |->
                              IF idx <= loc.pv_index THEN loc.multipv_lines[idx].best
                              ELSE @[idx]]]
          /\ loc' = [loc EXCEPT !.use_aspiration = loc.have_previous[loc.pv_index + 1],
                                !.attempt = 0, !.score = 0]
          /\ pc' = "attempt"
  /\ UNCHANGED <<static_vars, worker_vars, tt, stop_flag, elapsed, result, last_completed, pv_table,
                 stack, ret, hist>>

\* search, lines 1276-1293: one aspiration attempt up to the call of negamax.
Attempt ==
  /\ pc = "attempt"
  /\ pv_table' = <<>>
  /\ \E sa \in {should_abort(state, stop_flag, elapsed)} :
       /\ state' = [state EXCEPT !.aborted = sa.aborted]
       /\ stop_flag' = sa.stop_flag
       /\ hist' = [SoftRaised(hist, stop_flag, sa.stop_flag, loc.current_depth, FALSE) EXCEPT
                     !.visits_after_stop =
                       IF ~sa.ret /\ sa.stop_flag THEN @ + 1 ELSE @]
       /\ IF sa.ret
          THEN /\ loc' = [loc EXCEPT !.attempt = @ + 1, !.aborted_depth = TRUE]
               /\ pc' = "line"
               /\ stack' = stack
          ELSE /\ loc' = [loc EXCEPT !.attempt = @ + 1]
               /\ pc' = "negamax"
               /\ stack' = <<NewFrame("negamax", 0, loc.current_depth, TRUE, FALSE,
                                      sa.stop_flag)>>
  /\ UNCHANGED <<static_vars, worker_vars, tt, elapsed, result, last_completed, ret>>

\* negamax 401-427 / qsearch 999-1007: the entry checks of the running call.
NodeEntry ==
  /\ pc = "negamax"
  /\ Top.site = "entry"
  /\ \E e \in {EnterNode(state, stop_flag, elapsed)} :
       /\ state' = e.state
       /\ stop_flag' = e.stop_flag
       /\ hist' = SoftRaised(hist, stop_flag, e.stop_flag, loc.current_depth, TRUE)
       /\ IF e.returns
          THEN /\ ReturnTo("alpha")
               /\ pv_table' = pv_table
          ELSE /\ stack' = SetTop([Top EXCEPT !.site = "body"])
               /\ ret' = ret
               /\ pc' = pc
               /\ pv_table' = IF Top.in_pv /\ Top.ply = 0 THEN <<>> ELSE pv_table
  /\ UNCHANGED <<static_vars, worker_vars, tt, elapsed, loc, result, last_completed>>

\* After the entry checks: the call returns without searching a child (the
\* ply limit, a table cutoff, static futility, no legal move, stand pat), or
\* hands over to qsearch at depth 0, or goes on to a site that searches.
NodeBody ==
  /\ pc = "negamax"
  /\ Top.site = "body"
  /\ \/ /\ Top.ply > 0
        /\ ReturnTo("value")
        /\ hist' = hist
     \/ /\ Top.fn = "negamax"
        /\ Top.ply < MaxSearchPly
        /\ Top.depth <= 0
        /\ Call([Top EXCEPT !.site = "tail"],
                ChildOf([Top EXCEPT !.site = "tail"], stop_flag))
        /\ hist' = [hist EXCEPT !.visits_after_stop = IF stop_flag THEN @ + 1 ELSE @]
     \/ /\ Top.fn = "negamax"
        /\ Top.ply < MaxSearchPly
        /\ Top.depth > 0
        /\ \E site \in SitesAfter(Top, "body") :
             stack' = SetTop([Top EXCEPT !.site = site])
        /\ UNCHANGED <<ret, pc, hist>>
     \/ /\ Top.fn = "qsearch"
        /\ Top.ply < MaxSearchPly
        /\ stack' = SetTop([Top EXCEPT !.site = "qloop"])
        /\ UNCHANGED <<ret, pc, hist>>
  /\ UNCHANGED <<static_vars, worker_vars, tt, stop_flag, elapsed, state, loc, result, last_completed,
                 pv_table>>

\* negamax, lines 964-994: the running call leaves its move loop and ends.
EndOfNegamax(st, pv, h) ==
  \E r \in {store_unless_aborted(tt, st, KeyOfCall(stack, Len(stack)), EntryOf(Top, pv))} :
    /\ tt' = r.table
    /\ hist' = [h EXCEPT !.stored = @ \/ r.stored,
                         !.stored_aborted = @ \/ (r.stored /\ st.aborted)]

\* A site is about to search its next child: the loop ends, or should_abort
\* is asked (multi-cut 674, move loop 734), or the move is excluded at the
\* root, or the child is called.
SiteCall ==
  /\ pc = "negamax"
  /\ Top.site \in {"razor", "null", "verify", "multicut", "singular", "loop", "qloop"}
  /\ ~Top.wait
  /\ IF Top.idx >= SiteCount(Top, loc.root_moves)
     THEN /\ IF Top.site = "multicut"
             THEN /\ \E site \in SitesAfter(Top, "multicut") :
                       stack' = SetTop([Top EXCEPT !.site = site, !.idx = 0])
                  /\ UNCHANGED <<ret, pc, tt, hist>>
             ELSE IF Top.site = "singular"
             THEN /\ stack' = SetTop([Top EXCEPT !.site = "loop", !.idx = 0])
                  /\ UNCHANGED <<ret, pc, tt, hist>>
             ELSE /\ ReturnTo("value")
                  /\ IF Top.site = "loop" THEN EndOfNegamax(state, pv_table, hist)
                     ELSE UNCHANGED <<tt, hist>>
          /\ UNCHANGED <<state, stop_flag>>
     ELSE IF Top.site \in {"multicut", "loop"}
     THEN \E sa \in {should_abort(state, stop_flag, elapsed)} :
            /\ state' = [state EXCEPT !.aborted = sa.aborted]
            /\ stop_flag' = sa.stop_flag
            /\ IF sa.ret
               THEN /\ ReturnTo("value")
                    /\ IF Top.site = "loop"
                       THEN EndOfNegamax([state EXCEPT !.aborted = sa.aborted], pv_table,
                                         SoftRaised(hist, stop_flag, sa.stop_flag,
                                                    loc.current_depth, TRUE))
                       ELSE /\ tt' = tt
                            /\ hist' = SoftRaised(hist, stop_flag, sa.stop_flag,
                                                  loc.current_depth, TRUE)
               ELSE IF is_root_excluded(state, loc.root_moves[Top.idx + 1], Top.ply)
               THEN /\ stack' = SetTop([Top EXCEPT !.idx = @ + 1])
                    /\ UNCHANGED <<ret, pc, tt>>
                    /\ hist' = SoftRaised(hist, stop_flag, sa.stop_flag, loc.current_depth, TRUE)
               ELSE /\ Call(Top, ChildOf(Top, sa.stop_flag))
                    /\ tt' = tt
                    /\ hist' = [SoftRaised(hist, stop_flag, sa.stop_flag,
                                           loc.current_depth, TRUE) EXCEPT
                                  !.visits_after_stop =
                                    IF sa.stop_flag THEN @ + 1 ELSE @]
     ELSE /\ Call(Top, ChildOf(Top, stop_flag))
          /\ hist' = [hist EXCEPT !.visits_after_stop = IF stop_flag THEN @ + 1 ELSE @]
          /\ UNCHANGED <<state, stop_flag, tt>>
  /\ UNCHANGED <<static_vars, worker_vars, elapsed, loc, result, last_completed, pv_table>>

\* The child a site searched has returned.
SiteReturn ==
  /\ pc = "negamax"
  /\ Top.wait
  /\ CASE Top.site = "tail" ->
            /\ ReturnTo(ret)
            /\ UNCHANGED <<pv_table, hist, tt>>
       [] Top.site \in {"razor", "verify"} ->
            /\ IF state.aborted THEN ReturnTo("value")
               ELSE \/ ReturnTo("value")
                    \/ /\ \E site \in SitesAfter(Top, Top.site) :
                            stack' = SetTop([Top EXCEPT !.site = site, !.idx = 0,
                                                        !.wait = FALSE])
                       /\ UNCHANGED <<ret, pc>>
            /\ UNCHANGED <<pv_table, hist, tt>>
       [] Top.site = "null" ->
            /\ IF state.aborted THEN ReturnTo("value")
               ELSE \/ ReturnTo("value")
                    \/ /\ \E site \in SitesAfter(Top, "null")
                                      \cup (IF Top.in_pv THEN {} ELSE {"verify"}) :
                            stack' = SetTop([Top EXCEPT !.site = site, !.idx = 0,
                                                        !.wait = FALSE])
                       /\ UNCHANGED <<ret, pc>>
            /\ UNCHANGED <<pv_table, hist, tt>>
       [] Top.site = "multicut" ->
            /\ IF state.aborted THEN ReturnTo("value")
               ELSE \/ ReturnTo("value")
                    \/ /\ stack' = SetTop([Top EXCEPT !.idx = @ + 1, !.wait = FALSE])
                       /\ UNCHANGED <<ret, pc>>
            /\ UNCHANGED <<pv_table, hist, tt>>
       [] Top.site = "singular" ->
            /\ \/ stack' = SetTop([Top EXCEPT !.site = "loop", !.idx = 0, !.wait = FALSE])
               \/ /\ ret # "alpha"
                  /\ stack' = SetTop([Top EXCEPT !.idx = @ + 1, !.wait = FALSE])
            /\ UNCHANGED <<ret, pc, pv_table, hist, tt>>
       [] Top.site = "loop" ->
            \/ /\ ~state.aborted
               /\ ~Top.researched
               /\ Call([Top EXCEPT !.researched = TRUE],
                       ChildOf([Top EXCEPT !.researched = TRUE], stop_flag))
               /\ hist' = [hist EXCEPT
                             !.visits_after_stop = IF stop_flag THEN @ + 1 ELSE @]
               /\ UNCHANGED <<pv_table, tt>>
            \/ /\ state.aborted
               /\ ReturnTo("value")
               /\ EndOfNegamax(state, pv_table, hist)
               /\ pv_table' = pv_table
            \/ /\ ~state.aborted
               /\ \E improves \in (IF pv_table = <<>> THEN {TRUE} ELSE BOOLEAN) :
                    pv_table' = IF Top.ply = 0 /\ Top.in_pv /\ improves
                                THEN <<loc.root_moves[Top.idx + 1]>> ELSE pv_table
               /\ \/ /\ ReturnTo("value")
                     /\ EndOfNegamax(state, pv_table', hist)
                  \/ /\ stack' = SetTop([Top EXCEPT !.idx = @ + 1, !.wait = FALSE,
                                                    !.researched = FALSE])
                     /\ UNCHANGED <<ret, pc, tt, hist>>
       [] Top.site = "qloop" ->
            /\ IF state.aborted THEN ReturnTo("value")
               ELSE \/ ReturnTo("value")
                    \/ /\ stack' = SetTop([Top EXCEPT !.idx = @ + 1, !.wait = FALSE])
                       /\ UNCHANGED <<ret, pc>>
            /\ UNCHANGED <<pv_table, hist, tt>>
  /\ UNCHANGED <<static_vars, worker_vars, stop_flag, elapsed, state, loc, result, last_completed>>

\* search, lines 1294-1364: negamax has returned to the aspiration loop.
AfterNegamax ==
  /\ pc = "after"
  /\ \E score \in Scores :
       IF state.aborted
       THEN /\ loc' = [loc EXCEPT !.score = score, !.aborted_depth = TRUE]
            /\ pc' = "line"
       ELSE IF ~loc.use_aspiration
       THEN /\ loc' = [loc EXCEPT !.score = score]
            /\ pc' = "line"
       ELSE \/ /\ loc' = [loc EXCEPT !.score = score]
               /\ pc' = "line"
            \/ /\ \E again \in (IF loc.attempt < MaxAttempts THEN BOOLEAN ELSE {FALSE}) :
                    loc' = [loc EXCEPT !.score = score, !.use_aspiration = again]
               /\ pc' = "attempt"
  /\ UNCHANGED <<static_vars, worker_vars, tt, stop_flag, elapsed, state, result, last_completed,
                 pv_table, stack, ret, hist>>

\* search, lines 1366-1390: the line of this multi-PV index is recorded.
RecordLine ==
  /\ pc = "line"
  /\ \E line \in {[best |-> IF pv_table = <<>> THEN MoveNull ELSE pv_table[1],
                   pv |-> pv_table, eval |-> loc.score]} :
       IF line.best = MoveNull
       THEN /\ loc' = [loc EXCEPT
                         !.multipv_lines[loc.pv_index + 1] = line,
                         !.have_previous[loc.pv_index + 1] = TRUE,
                         !.produced_lines = IF loc.pv_index = 0 THEN @ + 1 ELSE @,
                         !.active_multipv = IF loc.pv_index = 0 THEN 1 ELSE loc.pv_index]
            /\ pc' = "iter_end"
       ELSE /\ loc' = [loc EXCEPT
                         !.multipv_lines[loc.pv_index + 1] = line,
                         !.have_previous[loc.pv_index + 1] = TRUE,
                         !.produced_lines = @ + 1,
                         !.pv_index = IF loc.aborted_depth THEN @ ELSE @ + 1]
            /\ pc' = IF loc.aborted_depth THEN "iter_end" ELSE "pv"
  /\ UNCHANGED <<static_vars, worker_vars, tt, stop_flag, elapsed, state, result, last_completed,
                 pv_table, stack, ret, hist>>

\* search, lines 1392-1417: the end of an iteration.
IterEnd ==
  /\ pc = "iter_end"
  /\ state' = [state EXCEPT !.root_exclude_count = 0]
  /\ result' = IterationResult(loc, result)
  /\ IF loc.produced_lines > 0 /\ loc.active_multipv > 0
     THEN /\ last_completed' = result'
          /\ loc' = [loc EXCEPT
                       !.have_completed = TRUE,
                       !.current_depth =
                         IF state.aborted \/ loc.aborted_depth THEN @ ELSE @ + 1]
     ELSE /\ last_completed' = last_completed
          /\ loc' = [loc EXCEPT
                       !.current_depth =
                         IF state.aborted \/ loc.aborted_depth THEN @ ELSE @ + 1]
  /\ pc' = IF state.aborted \/ loc.aborted_depth THEN "finish" ELSE "iter"
  /\ hist' = [hist EXCEPT
                !.completed = IF state.aborted \/ loc.aborted_depth THEN @ ELSE result',
                !.progress = IF loc.produced_lines > 0 /\ loc.active_multipv > 0
                             THEN Append(@, [depth |-> result.depth,
                                             aborted |-> state.aborted \/ loc.aborted_depth])
                             ELSE @]
  /\ UNCHANGED <<static_vars, worker_vars, tt, stop_flag, elapsed, pv_table, stack, ret>>

\* search, lines 1419-1497: the result is put together and returned.
Finish ==
  /\ pc = "finish"
  /\ result' = FinalResult(pos, tt, state, loc, result, last_completed)
  /\ pc' = "returned"
  /\ UNCHANGED <<static_vars, worker_vars, tt, stop_flag, elapsed, state, loc, last_completed,
                 pv_table, stack, ret, hist>>

\* The steps of the searching thread.
SearchStep ==
  \/ IterStart \/ PvStart \/ Attempt \/ NodeEntry \/ NodeBody \/ SiteCall
  \/ SiteReturn \/ AfterNegamax \/ RecordLine \/ IterEnd \/ Finish

SearchNext ==
  \/ IterStart \/ PvStart \/ Attempt \/ NodeEntry \/ NodeBody \/ SiteCall
  \/ SiteReturn \/ AfterNegamax \/ RecordLine \/ IterEnd \/ Finish
  \/ Tick \/ SetStop

SpecSearch == SearchInit /\ [][SearchNext]_vars

\* The searching thread keeps running.
SpecSearchFair == SpecSearch /\ WF_vars(SearchStep)

(***************************************************************************)
(* The search worker as a state machine: the controller's calls and the    *)
(* worker thread's run(), interleaved.                                     *)
(***************************************************************************)
WorkerInit ==
  /\ pos = from_fen(RootFens[1], FALSE).pos
  /\ undo_stack = <<>>
  /\ last_op = "from_fen"
  /\ last_move = 0
  /\ before = pos
  /\ SearchIdle
  /\ WorkerConstructed
  /\ io_bound \in BOOLEAN
  /\ UnitsConstructed

\* A public function is called: the controller is between calls, has calls
\* left, and the worker has not been shut down.
MayCall ==
  /\ ctl.pc = "ready"
  /\ ctl.calls < MaxCalls
  /\ ~ctl.joined

\* start_search, lines 254-260 up to the call of push.
CallStartSearch ==
  /\ MayCall
  /\ ~shutdown_requested
  /\ ctl.starts < MaxStarts
  /\ busy' = TRUE
  /\ ctl' = [ctl EXCEPT !.pc = "push", !.op = "start_search", !.calls = @ + 1,
                        !.starts = @ + 1, !.seq = @ + 1,
                        !.cmd = [type |-> "Start", search |-> ctl.starts + 1,
                                 seq |-> ctl.seq + 1]]
  /\ UNCHANGED <<other_vars, stop_flag, queue, shutdown_requested, snapshot_vars,
                 io_bound, output, wrk, whist>>

\* push (307-311) calling SpscQueue::push, lines 59-63: the loads of head_
\* and tail_.  On a full queue push returns false and the caller yields and
\* tries again, which changes nothing.
PushTry ==
  /\ ctl.pc = "push"
  /\ ~push_full(queue)
  /\ ctl' = [ctl EXCEPT !.pc = "push_write"]
  /\ UNCHANGED <<other_vars, stop_flag, queue, busy, shutdown_requested,
                 snapshot_vars, io_bound, output, wrk, whist>>

\* SpscQueue::push, line 64: the slot is written.
PushWrite ==
  /\ ctl.pc = "push_write"
  /\ queue' = [queue EXCEPT !.buffer[queue.head] = ctl.cmd]
  /\ ctl' = [ctl EXCEPT !.pc = "push_publish"]
  /\ UNCHANGED <<other_vars, stop_flag, busy, shutdown_requested, snapshot_vars,
                 io_bound, output, wrk, whist>>

\* SpscQueue::push, lines 65-66: head_ is stored; the command is enqueued.
PushPublish ==
  /\ ctl.pc = "push_publish"
  /\ queue' = [queue EXCEPT !.head = increment(queue.head)]
  /\ ctl' = [ctl EXCEPT !.pc = IF ctl.op = "shutdown" THEN "join" ELSE "ready"]
  /\ whist' = [whist EXCEPT
                 !.enqueued = Append(@, [cmd |-> ctl.cmd,
                                         in_search |-> wrk.pc = "w_search"])]
  /\ UNCHANGED <<other_vars, stop_flag, busy, shutdown_requested, snapshot_vars,
                 io_bound, output, wrk>>

\* request_stop, line 264: the store to stop_flag_.
CallRequestStop ==
  /\ MayCall
  /\ ~shutdown_requested
  /\ stop_flag' = TRUE
  /\ ctl' = [ctl EXCEPT !.pc = "rs_busy", !.op = "request_stop", !.calls = @ + 1]
  /\ UNCHANGED <<other_vars, queue, busy, shutdown_requested, snapshot_vars,
                 io_bound, output, wrk, whist>>

\* request_stop, lines 265-270: the load of busy_, then the return or the
\* Stop command.
RequestStopCheck ==
  /\ ctl.pc = "rs_busy"
  /\ ctl' = IF request_stop_returns(busy) THEN [ctl EXCEPT !.pc = "ready"]
            ELSE [ctl EXCEPT !.pc = "push", !.seq = @ + 1,
                             !.cmd = [type |-> "Stop", search |-> 0,
                                      seq |-> ctl.seq + 1]]
  /\ UNCHANGED <<other_vars, stop_flag, queue, busy, shutdown_requested,
                 snapshot_vars, io_bound, output, wrk, whist>>

\* wait_idle, lines 274-277: the first load of busy_, then the lock of
\* mutex_, which no other thread ever holds.
CallWaitIdle ==
  /\ MayCall
  /\ ~shutdown_requested
  /\ ctl' = [ctl EXCEPT !.pc = IF ~busy THEN "ready" ELSE "wi_pred",
                        !.op = "wait_idle", !.calls = @ + 1]
  /\ UNCHANGED <<other_vars, stop_flag, queue, busy, shutdown_requested,
                 snapshot_vars, io_bound, output, wrk, whist>>

\* wait_idle, line 278: condition_variable::wait evaluates the predicate.
WaitPredicate ==
  /\ ctl.pc = "wi_pred"
  /\ ctl' = [ctl EXCEPT !.pc = IF ~busy THEN "ready" ELSE "wi_wait"]
  /\ UNCHANGED <<other_vars, stop_flag, queue, busy, shutdown_requested,
                 snapshot_vars, io_bound, output, wrk, whist>>

\* wait_idle, line 278: the predicate was false, and the thread releases
\* mutex_ and sleeps on ready_cv_.
WaitBlock ==
  /\ ctl.pc = "wi_wait"
  /\ ctl' = [ctl EXCEPT !.pc = "wi_blocked"]
  /\ UNCHANGED <<other_vars, stop_flag, queue, busy, shutdown_requested,
                 snapshot_vars, io_bound, output, wrk, whist>>

\* condition_variable::wait may wake without a notification.
SpuriousWakeup ==
  /\ ctl.pc = "wi_blocked"
  /\ ctl' = [ctl EXCEPT !.pc = "wi_pred"]
  /\ UNCHANGED <<other_vars, stop_flag, queue, busy, shutdown_requested,
                 snapshot_vars, io_bound, output, wrk, whist>>

\* last_snapshot, lines 286-289: the lock and the test of has_snapshot_.
CallLastSnapshot ==
  /\ MayCall
  /\ ~shutdown_requested
  /\ lock_guard(snapshot_mutex)
  /\ IF ~has_snapshot
     THEN /\ ctl' = [ctl EXCEPT !.op = "last_snapshot", !.calls = @ + 1,
                                !.got = FALSE]
          /\ snapshot_mutex' = snapshot_mutex
     ELSE /\ ctl' = [ctl EXCEPT !.pc = "ls_copy", !.op = "last_snapshot",
                                !.calls = @ + 1, !.got = FALSE, !.field = 1]
          /\ snapshot_mutex' = "controller"
  /\ UNCHANGED <<other_vars, stop_flag, queue, busy, shutdown_requested,
                 last_snapshot, has_snapshot, io_bound, output, wrk, whist>>

\* last_snapshot, lines 290-291: the copy, field by field, then the unlock.
CopySnapshot ==
  /\ ctl.pc = "ls_copy"
  /\ IF ctl.field < Len(SnapshotFields)
     THEN /\ ctl' = [ctl EXCEPT
                       !.out[SnapshotFields[ctl.field]] =
                         last_snapshot[SnapshotFields[ctl.field]],
                       !.field = @ + 1]
          /\ snapshot_mutex' = snapshot_mutex
     ELSE /\ ctl' = [ctl EXCEPT
                       !.out[SnapshotFields[ctl.field]] =
                         last_snapshot[SnapshotFields[ctl.field]],
                       !.field = 0, !.pc = "ready", !.got = TRUE,
                       !.latest = whist.stored]
          /\ snapshot_mutex' = "free"
  /\ UNCHANGED <<other_vars, stop_flag, queue, busy, shutdown_requested,
                 last_snapshot, has_snapshot, io_bound, output, wrk, whist>>

\* shutdown, lines 295-299: the compare-and-swap, then the Quit command.
CallShutdown ==
  /\ MayCall
  /\ IF shutdown_requested
     THEN /\ ctl' = [ctl EXCEPT !.op = "shutdown", !.calls = @ + 1]
          /\ shutdown_requested' = shutdown_requested
     ELSE /\ ctl' = [ctl EXCEPT !.pc = "push", !.op = "shutdown", !.calls = @ + 1,
                                !.seq = @ + 1,
                                !.cmd = [type |-> "Quit", search |-> 0,
                                         seq |-> ctl.seq + 1]]
          /\ shutdown_requested' = TRUE
  /\ UNCHANGED <<other_vars, stop_flag, queue, busy, snapshot_vars, io_bound,
                 output, wrk, whist>>

\* shutdown, lines 300-302: thread_.join() returns when run() has returned.
Join ==
  /\ ctl.pc = "join"
  /\ wrk.pc = "exited"
  /\ ctl' = [ctl EXCEPT !.pc = "ready", !.joined = TRUE]
  /\ UNCHANGED <<other_vars, stop_flag, queue, busy, shutdown_requested,
                 snapshot_vars, io_bound, output, wrk, whist>>

\* run, line 316 calling SpscQueue::pop, lines 69-73: the loads of tail_ and
\* head_.  On an empty queue pop returns false and run yields and tries
\* again, which changes nothing.
Pop ==
  /\ wrk.pc = "pop"
  /\ ~pop_empty(queue)
  /\ wrk' = [wrk EXCEPT !.pc = "pop_read"]
  /\ UNCHANGED <<other_vars, stop_flag, queue, busy, shutdown_requested,
                 snapshot_vars, io_bound, output, ctl, whist>>

\* SpscQueue::pop, line 74: the slot is read.
PopRead ==
  /\ wrk.pc = "pop_read"
  /\ wrk' = [wrk EXCEPT !.pc = "pop_publish", !.cmd = queue.buffer[queue.tail]]
  /\ UNCHANGED <<other_vars, stop_flag, queue, busy, shutdown_requested,
                 snapshot_vars, io_bound, output, ctl, whist>>

\* SpscQueue::pop, lines 75-76: tail_ is stored; the command is dequeued,
\* and run switches on its type (320).
PopPublish ==
  /\ wrk.pc = "pop_publish"
  /\ queue' = [queue EXCEPT !.tail = increment(queue.tail)]
  /\ wrk' = [wrk EXCEPT !.pc = handler(wrk.cmd.type)]
  /\ whist' = [whist EXCEPT !.dequeued = Append(@, wrk.cmd)]
  /\ UNCHANGED <<other_vars, stop_flag, busy, shutdown_requested, snapshot_vars,
                 io_bound, output, ctl>>

\* run, line 322: the Start handler stores busy_.
StartBusy ==
  /\ wrk.pc = "w_start"
  /\ busy' = TRUE
  /\ wrk' = [wrk EXCEPT !.pc = StepAfter("w_start"), !.infos = 0]
  /\ UNCHANGED <<other_vars, stop_flag, queue, shutdown_requested, snapshot_vars,
                 io_bound, output, ctl, whist>>

\* run, line 323: the Start handler clears stop_flag_.
StartClear ==
  /\ wrk.pc = "w_clear"
  /\ stop_flag' = FALSE
  /\ wrk' = [wrk EXCEPT !.pc = StepAfter("w_clear")]
  /\ UNCHANGED <<other_vars, queue, busy, shutdown_requested, snapshot_vars,
                 io_bound, output, ctl, whist>>

\* run, lines 327-365: search calls progress or currmove, which writes an
\* info line when I/O is bound.
SearchCallback ==
  /\ wrk.pc = "w_search"
  /\ wrk.infos < MaxInfo
  /\ output' = IF io_bound
               THEN Append(output, [kind |-> "info", search |-> wrk.cmd.search])
               ELSE output
  /\ wrk' = [wrk EXCEPT !.infos = @ + 1]
  /\ UNCHANGED <<other_vars, stop_flag, queue, busy, shutdown_requested,
                 snapshot_vars, io_bound, ctl, whist>>

\* run, line 367: search returns its result, with lines or without.
SearchReturn ==
  /\ wrk.pc = "w_search"
  /\ \E has_lines \in BOOLEAN :
       wrk' = [wrk EXCEPT !.pc = StepAfter("w_search"),
                          !.result = [search |-> wrk.cmd.search,
                                      has_lines |-> has_lines]]
  /\ whist' = [whist EXCEPT !.returned = wrk.cmd.search]
  /\ UNCHANGED <<other_vars, stop_flag, queue, busy, shutdown_requested,
                 snapshot_vars, io_bound, output, ctl>>

\* run, line 369: the load of stop_flag_.
LoadStopped ==
  /\ wrk.pc = "w_stopped"
  /\ wrk' = [wrk EXCEPT !.pc = StepAfter("w_stopped"), !.stopped = stop_flag]
  /\ UNCHANGED <<other_vars, stop_flag, queue, busy, shutdown_requested,
                 snapshot_vars, io_bound, output, ctl, whist>>

\* The value the Start handler assigns to a field of last_snapshot_.
FieldValue(w, name) ==
  CASE name = "position" -> [search |-> w.cmd.search]
    [] name = "result" -> w.result
    [] name = "limits" -> [search |-> w.cmd.search]
    [] name = "stopped" -> [search |-> w.cmd.search, value |-> w.stopped]

\* run, lines 370-377: the lock, the four assignments, has_snapshot_, and
\* the unlock at the end of the block.
WriteSnapshot ==
  /\ wrk.pc = "w_snap"
  /\ IF wrk.field = 0
     THEN /\ lock_guard(snapshot_mutex)
          /\ snapshot_mutex' = "worker"
          /\ wrk' = [wrk EXCEPT !.field = 1]
          /\ UNCHANGED <<last_snapshot, has_snapshot, whist>>
     ELSE IF wrk.field <= Len(SnapshotFields)
     THEN /\ last_snapshot' = [last_snapshot EXCEPT
                                 ![SnapshotFields[wrk.field]] =
                                   FieldValue(wrk, SnapshotFields[wrk.field])]
          /\ wrk' = [wrk EXCEPT !.field = @ + 1]
          /\ UNCHANGED <<snapshot_mutex, has_snapshot, whist>>
     ELSE /\ has_snapshot' = TRUE
          /\ snapshot_mutex' = "free"
          /\ wrk' = [wrk EXCEPT !.field = 0, !.pc = StepAfter("w_snap")]
          /\ whist' = [whist EXCEPT !.stored = wrk.cmd.search]
          /\ last_snapshot' = last_snapshot
  /\ UNCHANGED <<other_vars, stop_flag, queue, busy, shutdown_requested, io_bound,
                 output, ctl>>

\* run, lines 379-409: without I/O run returns; with it, the lines of the
\* result are written.
WriteInfo ==
  /\ wrk.pc = "w_info"
  /\ IF ~io_bound
     THEN /\ wrk' = [wrk EXCEPT !.pc = "exited"]
          /\ output' = output
     ELSE /\ wrk' = [wrk EXCEPT !.pc = StepAfter("w_info")]
          /\ output' = IF wrk.result.has_lines
                       THEN Append(output, [kind |-> "info", search |-> wrk.cmd.search])
                       ELSE output
  /\ UNCHANGED <<other_vars, stop_flag, queue, busy, shutdown_requested,
                 snapshot_vars, io_bound, ctl, whist>>

\* run, lines 411-417: the bestmove line.
WriteBestmove ==
  /\ wrk.pc = "w_best"
  /\ output' = Append(output, [kind |-> "bestmove", search |-> wrk.cmd.search])
  /\ wrk' = [wrk EXCEPT !.pc = StepAfter("w_best")]
  /\ UNCHANGED <<other_vars, stop_flag, queue, busy, shutdown_requested,
                 snapshot_vars, io_bound, ctl, whist>>

\* run, line 419: the store of false to busy_.
StoreIdle ==
  /\ wrk.pc = "w_idle"
  /\ busy' = FALSE
  /\ wrk' = [wrk EXCEPT !.pc = StepAfter("w_idle")]
  /\ whist' = [whist EXCEPT !.idle_after = @ \cup {wrk.cmd.search}]
  /\ UNCHANGED <<other_vars, stop_flag, queue, shutdown_requested, snapshot_vars,
                 io_bound, output, ctl>>

\* run, line 420: notify_all wakes the threads asleep on ready_cv_.
NotifyAll ==
  /\ wrk.pc = "w_notify"
  /\ wrk' = [wrk EXCEPT !.pc = StepAfter("w_notify")]
  /\ ctl' = IF ctl.pc = "wi_blocked" THEN [ctl EXCEPT !.pc = "wi_pred"] ELSE ctl
  /\ UNCHANGED <<other_vars, stop_flag, queue, busy, shutdown_requested,
                 snapshot_vars, io_bound, output, whist>>

\* run, lines 423-425: the Stop handler.
HandleStop ==
  /\ wrk.pc = "w_stop"
  /\ stop_flag' = TRUE
  /\ wrk' = [wrk EXCEPT !.pc = "pop"]
  /\ UNCHANGED <<other_vars, queue, busy, shutdown_requested, snapshot_vars,
                 io_bound, output, ctl, whist>>

\* The controller goes on with the call it is in.
ControllerStep ==
  \/ PushTry \/ PushWrite \/ PushPublish \/ RequestStopCheck \/ WaitPredicate
  \/ WaitBlock \/ CopySnapshot \/ Join

\* The worker thread runs.
WorkerStep ==
  \/ Pop \/ PopRead \/ PopPublish \/ StartBusy \/ StartClear \/ SearchCallback
  \/ SearchReturn \/ LoadStopped \/ WriteSnapshot \/ WriteInfo \/ WriteBestmove
  \/ StoreIdle \/ NotifyAll \/ HandleStop

WorkerNext ==
  \/ CallStartSearch \/ CallRequestStop \/ CallWaitIdle \/ CallLastSnapshot
  \/ CallShutdown \/ SpuriousWakeup
  \/ PushTry \/ PushWrite \/ PushPublish \/ RequestStopCheck \/ WaitPredicate
  \/ WaitBlock \/ CopySnapshot \/ Join
  \/ Pop \/ PopRead \/ PopPublish \/ StartBusy \/ StartClear \/ SearchCallback
  \/ SearchReturn \/ LoadStopped \/ WriteSnapshot \/ WriteInfo \/ WriteBestmove
  \/ StoreIdle \/ NotifyAll \/ HandleStop

SpecWorker == WorkerInit /\ [][WorkerNext]_vars

\* Both threads keep running; a sleeping thread wakes only when notified.
SpecWorkerFair == SpecWorker /\ WF_vars(ControllerStep) /\ WF_vars(WorkerStep)

(***************************************************************************)
(* The transposition table as a state machine: a table built by TT(0),     *)
(* then store and set_generation with any key, entry and generation.       *)
(***************************************************************************)
\* The keys handed to store: 0, the keys stored before, and one new key.
\* All keys fall into the one bucket of the table, so which number a new key
\* has makes no difference: new keys are numbered in the order they appear.
TableKeys(high) == 0 .. (IF high < MaxKey THEN high + 1 ELSE MaxKey)

\* The generations handed to set_generation: both ends of the uint8 range.
Generations == {0, 1, 255}

\* The entries handed to store.  The caller's key and generation fields
\* are whatever the caller left in them.
InEntries ==
  {[key |-> 0, best_move |-> 1, score |-> 10, static_eval |-> 11,
    depth |-> d, generation |-> 0, bound |-> 0] : d \in {0, 255}}
  \cup
  {[key |-> 3, best_move |-> 2, score |-> -20, static_eval |-> 5,
    depth |-> d, generation |-> 77, bound |-> 2] : d \in {3}}

\* The board, search and the worker stay as constructed.
TableInit ==
  /\ pos = from_fen(RootFens[1], FALSE).pos
  /\ undo_stack = <<>>
  /\ last_op = "from_fen"
  /\ last_move = 0
  /\ before = pos
  /\ SearchIdle
  /\ WorkerConstructed
  /\ io_bound = TRUE
  /\ UnitsConstructed

\* table.store(key, in)
Store ==
  /\ tt_op.count < MaxTableOps
  /\ \E key \in TableKeys(tt_op.high), in \in InEntries :
       /\ table' = store(table, key, in)
       /\ tt_op' = [op |-> "store", key |-> key, in |-> in, before |-> table,
                    count |-> tt_op.count + 1, high |-> Max2(tt_op.high, key),
                    live |-> (tt_op.live \ {table.entries[WrittenSlot(table, key)].key})
                               \cup {key}]
  /\ UNCHANGED <<board_vars, budget_call, frame_vars, history_vars, ext_call,
                 walk, asp, search_vars,
                 worker_vars>>

\* table.set_generation(gen)
SetGeneration ==
  /\ tt_op.count < MaxTableOps
  /\ \E gen \in Generations :
       /\ table' = set_generation(table, gen)
       /\ tt_op' = [op |-> "set_generation", key |-> 0, in |-> EmptyEntry,
                    before |-> table, count |-> tt_op.count + 1, high |-> tt_op.high,
                    live |-> tt_op.live]
  /\ UNCHANGED <<board_vars, budget_call, frame_vars, history_vars, ext_call,
                 walk, asp, search_vars,
                 worker_vars>>

TableNext == Store \/ SetGeneration

SpecTable == TableInit /\ [][TableNext]_vars

(***************************************************************************)
(* The time budget as a state machine: compute_time_budget is called with  *)
(* any limits and either side to move.                                     *)
(***************************************************************************)
\* Remaining times, in ms: no clock, none left, and values on both sides of
\* the safety margin and of the minimum move time.
ClockTimes == {-1, 0, 1, 7, 80, 600, 60000}

\* Increments, in ms.
Increments == {-3, 0, 1, 19, 21, 1000}

\* limits.movestogo: not given, and values on both sides of 20.
MovesToGo == {-1, 0, 1, 5, 20, 40}

\* The limits handed to compute_time_budget.
BudgetLimits ==
  [infinite : BOOLEAN, movetime_ms : {-1, 0, 500}, wtime_ms : ClockTimes,
   btime_ms : ClockTimes, winc_ms : Increments, binc_ms : Increments,
   movestogo : MovesToGo]

\* The board, search, the worker and the table stay as constructed; the
\* arguments of the call are chosen.
BudgetInit ==
  /\ pos = from_fen(RootFens[1], FALSE).pos
  /\ undo_stack = <<>>
  /\ last_op = "from_fen"
  /\ last_move = 0
  /\ before = pos
  /\ SearchIdle
  /\ WorkerConstructed
  /\ io_bound = TRUE
  /\ TableConstructed
  /\ StackConstructed
  /\ HistoryConstructed
  /\ NoLoopMove
  /\ NoWalk
  /\ NoAspiration
  /\ \E limits \in BudgetLimits, stm \in {White, Black} :
       budget_call = [called |-> FALSE, limits |-> limits, stm |-> stm,
                      budget |-> NoBudget]

\* compute_time_budget(limits, stm)
ComputeTimeBudget ==
  /\ ~budget_call.called
  /\ budget_call' = [budget_call EXCEPT
                       !.called = TRUE,
                       !.budget = compute_time_budget(budget_call.limits,
                                                      budget_call.stm)]
  /\ UNCHANGED <<board_vars, table_vars, frame_vars, history_vars, ext_call,
                 walk, asp, search_vars,
                 worker_vars>>

SpecBudget == BudgetInit /\ [][ComputeTimeBudget]_vars

(***************************************************************************)
(* The search stack as a state machine: the calls search and negamax make  *)
(* on it, in their order.  stack_call.ply is the ply of the running        *)
(* negamax call, -1 when none runs.                                        *)
(***************************************************************************)
\* Static evaluations: 20 and 19 lie at and just below 50 - kImprovingSlack.
StackEvals == {0, 19, 20, 50}

\* The moves leading to a child, with the kind they capture: the null move
\* and a capture of a pawn.
StackMoves == {<<0, PieceTypeNone>>, <<1, Pawn>>}

StackInit == TableInit

\* search, line 1293: prepare_root() and the call of negamax at ply 0.
PrepareRoot ==
  /\ stack_call.ply = -1
  /\ frames_' = prepare_root
  /\ stack_call' = [op |-> "prepare_root", ply |-> 0, eval |-> 0]
  /\ UNCHANGED <<board_vars, table_vars, budget_call, history_vars, ext_call,
                 walk, asp, search_vars,
                 worker_vars>>

\* negamax, ensure_static_eval (lines 416-426): a node without a static
\* eval records the one of its position.
SetStaticEval ==
  /\ stack_call.ply >= 0
  /\ ~frames_[stack_call.ply].has_static_eval
  /\ \E eval \in StackEvals :
       /\ frames_' = set_static_eval(frames_, stack_call.ply, eval)
       /\ stack_call' = [op |-> "set_static_eval", ply |-> stack_call.ply,
                         eval |-> eval]
  /\ UNCHANGED <<board_vars, table_vars, budget_call, history_vars, ext_call,
                 walk, asp, search_vars,
                 worker_vars>>

\* negamax, lines 559, 687, 834 and 362: a node that has its static eval
\* (lines 535, 621) prepares the child's frame and calls negamax for it.
PrepareChild ==
  /\ stack_call.ply >= 0
  /\ stack_call.ply + 1 < MaxStackPly
  /\ frames_[stack_call.ply].has_static_eval
  /\ \E m \in StackMoves :
       frames_' = prepare_child(frames_, stack_call.ply, stack_call.ply + 1,
                                m[1], m[2])
  /\ stack_call' = [op |-> "prepare_child", ply |-> stack_call.ply + 1, eval |-> 0]
  /\ UNCHANGED <<board_vars, table_vars, budget_call, history_vars, ext_call,
                 walk, asp, search_vars,
                 worker_vars>>

\* negamax returns to its caller.
ReturnFromNode ==
  /\ stack_call.ply >= 0
  /\ stack_call' = [op |-> "return", ply |-> stack_call.ply - 1, eval |-> 0]
  /\ UNCHANGED <<frames_, board_vars, table_vars, budget_call, history_vars,
                 ext_call, walk, asp, search_vars,
                 worker_vars>>

StackNext == PrepareRoot \/ SetStaticEval \/ PrepareChild \/ ReturnFromNode

SpecStack == StackInit /\ [][StackNext]_vars

(***************************************************************************)
(* The history table as a state machine: negamax calls for the same side   *)
(* or the other one run their move loops on one table; the scores of the   *)
(* children are inputs.  The counter and continuation tables, which the    *)
(* same lines update, are other objects.                                   *)
(***************************************************************************)
\* The negamax calls that reach their move loop.
MaxNodeVisits == 2

\* Depths of a node: 16 is the first depth whose bonus exceeds kMaxHistory.
NodeDepths == {1, 3, 16}

\* Scores of the children, below, inside and above the window (0, 10).
NodeScores == {-5, 5, 15}

HistoryInit == TableInit

\* negamax, lines 728-733: the move loop starts.
EnterMoveLoop ==
  /\ ~node.active
  /\ node.visits < MaxNodeVisits
  /\ \E depth \in NodeDepths, side \in {White, Black} :
       node' = [node EXCEPT !.active = TRUE, !.depth = depth, !.alpha = 0,
                            !.beta = 10, !.moving_side = side, !.tried = {},
                            !.failed_quiets = <<>>, !.visits = @ + 1,
                            !.move = 0, !.score = 0, !.cut = FALSE,
                            !.values_before = history, !.failed_before = <<>>]
  /\ UNCHANGED <<history, board_vars, table_vars, budget_call, frame_vars,
                 ext_call, walk, asp, search_vars,
                 worker_vars>>

\* negamax, lines 733-961: one move of the loop is searched and scored;
\* the loop ends on an abort and on a cutoff.
SearchLoopMove ==
  /\ node.active
  /\ \E move \in NodeMoveSet \ node.tried, score \in NodeScores, aborted \in BOOLEAN :
       /\ history' = HistoryAfterMove(history, node, move, score, aborted)
       /\ node' = [node EXCEPT
                     !.active = ~aborted /\ score < node.beta,
                     !.alpha = IF ~aborted /\ score > node.alpha THEN score ELSE @,
                     !.tried = @ \cup {move},
                     !.failed_quiets = FailedAfter(node, move, score),
                     !.move = move, !.score = score,
                     !.cut = ~aborted /\ score >= node.beta,
                     !.values_before = history,
                     !.failed_before = node.failed_quiets]
  /\ UNCHANGED <<board_vars, table_vars, budget_call, frame_vars, ext_call,
                 walk, asp, search_vars,
                 worker_vars>>

\* negamax, line 733: the loop ends when no move is left.
LeaveMoveLoop ==
  /\ node.active
  /\ node.tried = NodeMoveSet
  /\ node' = [node EXCEPT !.active = FALSE, !.cut = FALSE, !.move = 0]
  /\ UNCHANGED <<history, board_vars, table_vars, budget_call, frame_vars,
                 ext_call, walk, asp, search_vars,
                 worker_vars>>

HistoryNext == EnterMoveLoop \/ SearchLoopMove \/ LeaveMoveLoop

SpecHistory == HistoryInit /\ [][HistoryNext]_vars

(***************************************************************************)
(* The extension of a move as a state machine: a move of the loop is       *)
(* chosen with the node it is made in, and lines 755-777 run on it.        *)
(***************************************************************************)
ExtensionInit ==
  /\ pos = from_fen(RootFens[1], FALSE).pos
  /\ undo_stack = <<>>
  /\ last_op = "from_fen"
  /\ last_move = 0
  /\ before = pos
  /\ SearchIdle
  /\ WorkerConstructed
  /\ io_bound = TRUE
  /\ TableConstructed /\ NoBudgetCall /\ StackConstructed /\ HistoryConstructed
  /\ NoWalk /\ NoAspiration
  /\ \E c \in LoopMoves :
       ext_call = [made |-> FALSE, extension |-> 0, next_depth |-> 0, in |-> c]

\* negamax, lines 755-777: the move is made and its extension and the depth
\* of its search are computed.
ExtendMove ==
  /\ ~ext_call.made
  /\ ext_call' = [ext_call EXCEPT !.made = TRUE,
                                  !.extension = extension_of(ext_call.in),
                                  !.next_depth = next_depth_of(ext_call.in)]
  /\ UNCHANGED <<board_vars, table_vars, budget_call, frame_vars, history_vars,
                 walk, asp, search_vars,
                 worker_vars>>

SpecExtension == ExtensionInit /\ [][ExtendMove]_vars

(***************************************************************************)
(* The walk of the tree as a state machine: search is called on a root;    *)
(* negamax, its probes and qsearch make legal moves and null moves, go     *)
(* down, come back and take the move back; the abort flag is raised at any *)
(* time; search returns when the root call has returned.  Which moves are  *)
(* tried and when a node returns is chosen freely.                         *)
(***************************************************************************)
WalkInit ==
  /\ pos \in Roots
  /\ undo_stack = <<>>
  /\ last_op = "from_fen"
  /\ last_move = 0
  /\ before = pos
  /\ SearchIdle
  /\ WorkerConstructed
  /\ io_bound = TRUE
  /\ TableConstructed /\ NoBudgetCall /\ StackConstructed /\ HistoryConstructed
  /\ NoLoopMove /\ NoAspiration
  /\ walk = [pc |-> "running", root |-> pos, aborted |-> FALSE, seen |-> {}]

\* negamax 756, 684, should_extend_singular 359, qsearch 1018: a move of
\* the generated list is made and the child is searched.
WalkMake ==
  /\ walk.pc = "running"
  /\ ~walk.aborted
  /\ Len(undo_stack) < MaxPly
  /\ \E step \in MakeSteps(pos) :
       /\ pos' = step.pos
       /\ undo_stack' = Append(undo_stack,
                               [move |-> step.move, undo |-> step.undo, before |-> pos])
       /\ last_op' = "make"
       /\ last_move' = step.move
       /\ before' = pos
       /\ walk' = [walk EXCEPT
                     !.seen = @ \cup {IF is_capture_move(step.move)
                                      THEN "capture" ELSE "move"}]
  /\ UNCHANGED <<table_vars, budget_call, frame_vars, history_vars, ext_call,
                 asp, search_vars, worker_vars>>

\* negamax, lines 533-561: the null move of a node that is not in check,
\* does not follow a null move and has the material for it.
WalkMakeNull ==
  /\ walk.pc = "running"
  /\ ~walk.aborted
  /\ Len(undo_stack) < MaxPly
  /\ ~in_check(pos, pos.side)
  /\ (undo_stack # <<>> => undo_stack[Len(undo_stack)].move # 0)
  /\ has_sufficient_material_for_null(pos)
  /\ pos' = make_null(pos).pos
  /\ undo_stack' = Append(undo_stack,
                          [move |-> 0, undo |-> make_null(pos).undo, before |-> pos])
  /\ last_op' = "make_null"
  /\ last_move' = 0
  /\ before' = pos
  /\ walk' = [walk EXCEPT !.seen = @ \cup {"null"}]
  /\ UNCHANGED <<table_vars, budget_call, frame_vars, history_vars, ext_call,
                 asp, search_vars, worker_vars>>

\* negamax 402-404, qsearch 1001-1003, should_abort: the node cap, the stop
\* flag or the clock raises state.aborted.
WalkAbort ==
  /\ walk.pc = "running"
  /\ ~walk.aborted
  /\ walk' = [walk EXCEPT !.aborted = TRUE]
  /\ UNCHANGED <<board_vars, table_vars, budget_call, frame_vars, history_vars,
                 ext_call, asp, search_vars, worker_vars>>

\* The call for the child returns and the move is taken back.
WalkUnmake ==
  /\ walk.pc = "running"
  /\ Len(undo_stack) > 0
  /\ pos' = ChildReturned(pos, undo_stack[Len(undo_stack)], walk.aborted)
  /\ undo_stack' = SubSeq(undo_stack, 1, Len(undo_stack) - 1)
  /\ last_op' = "unmake"
  /\ last_move' = undo_stack[Len(undo_stack)].move
  /\ before' = undo_stack[Len(undo_stack)].before
  /\ walk' = [walk EXCEPT
                !.seen = @ \cup (IF walk.aborted THEN {"aborted_unmake"} ELSE {})]
  /\ UNCHANGED <<table_vars, budget_call, frame_vars, history_vars, ext_call,
                 asp, search_vars, worker_vars>>

\* search, lines 1293-1473: the root call of negamax has returned; search
\* makes its fallback pass when it has no best move, and returns.
WalkReturn ==
  /\ walk.pc = "running"
  /\ Len(undo_stack) = 0
  /\ \E best_is_null \in BOOLEAN :
       /\ pos' = IF best_is_null
                 THEN FallbackPass(generate_moves(pos, GenAll).pos,
                                   generate_moves(pos, GenAll).out, 1)
                 ELSE pos
       /\ walk' = [walk EXCEPT
                     !.pc = "returned",
                     !.seen = @ \cup (IF best_is_null THEN {"fallback"} ELSE {})]
  /\ last_op' = "search"
  /\ UNCHANGED <<undo_stack, last_move, before, table_vars, budget_call,
                 frame_vars, history_vars, ext_call, asp, search_vars, worker_vars>>

WalkNext == WalkMake \/ WalkMakeNull \/ WalkAbort \/ WalkUnmake \/ WalkReturn

SpecWalk == WalkInit /\ [][WalkNext]_vars

(***************************************************************************)
(* The aspiration loop as a state machine: the loop of one MultiPV slot at *)
(* one depth (search.cpp 1250-1364).  The scores the root calls of negamax *)
(* return and the abort are inputs.                                        *)
(***************************************************************************)
\* Scores of the root calls, in [-kEvalInfinity, kEvalInfinity].
RootScores == {-30000, -29950, -500, -100, 0, 100, 500, 29950, 30000}

\* Scores of the slot at the depth before.
PreviousScores == {-29990, 0, 40}

AspirationInit == TableInit

\* search, lines 1250-1275: the first window of the slot.
AspirationStart ==
  /\ asp.pc = "idle"
  /\ \E depth \in 1 .. MaxDepth, have_previous \in BOOLEAN,
        previous_score \in PreviousScores :
       asp' = [pc |-> "loop", attempt |-> 0, score |-> 0, aborted |-> FALSE,
               full_searched |-> FALSE]
              @@ FirstWindow(depth, have_previous, previous_score)
  /\ UNCHANGED <<board_vars, table_vars, budget_call, frame_vars, history_vars,
                 ext_call, walk, search_vars, worker_vars>>

\* search, lines 1277-1363: one pass of the loop: the abort checks, the root
\* call of negamax, and the break or the next window.
AspirationAttempt ==
  /\ asp.pc = "loop"
  /\ \E aborted \in BOOLEAN, score \in RootScores :
       asp' = IF aborted
              THEN [asp EXCEPT !.pc = "done", !.aborted = TRUE,
                               !.attempt = Min2(@ + 1, MaxAttemptCount)]
              ELSE IF ~asp.use_aspiration \/ (asp.alpha < score /\ score < asp.beta)
              THEN [asp EXCEPT !.pc = "done", !.score = score,
                               !.attempt = Min2(@ + 1, MaxAttemptCount),
                               !.full_searched = ~asp.use_aspiration]
              ELSE [AfterFail(asp, score) EXCEPT
                      !.score = score, !.attempt = Min2(@ + 1, MaxAttemptCount)]
  /\ UNCHANGED <<board_vars, table_vars, budget_call, frame_vars, history_vars,
                 ext_call, walk, search_vars, worker_vars>>

AspirationNext == AspirationStart \/ AspirationAttempt

SpecAspiration == AspirationInit /\ [][AspirationNext]_vars

\* The searching thread keeps running.
SpecAspirationFair == SpecAspiration /\ WF_vars(AspirationNext)

(***************************************************************************)
(* Properties of the board.                                                *)
(***************************************************************************)
\* C1: for every Position returned by from_fen, with either side to move,
\* and every Position reached from it by make/unmake of legal moves, the
\* stored zobrist field equals the hash recomputed from scratch over the
\* placement, the castling rights, the en-passant file and the side to move.
C1_ZobristEqualsRecomputed == pos.zobrist = compute_zobrist(pos)

\* C2: make(m, u) followed by unmake(m, u) restores every field of the
\* position: whenever a move has just been taken back, the position equals
\* the position the move was made on (mailbox, bitboards, occupancies, king
\* squares, side, castling rights, en-passant square, both clocks, zobrist).
C2_MakeUnmakeRestores == last_op = "unmake" => pos = before

\* A castling move (king and rook both moved, rights cleared) has been
\* taken back.
C2_CastleTakenBack ==
  /\ last_op = "unmake"
  /\ move_flag(last_move) \in {KingCastle, QueenCastle}
  /\ pos.castling # CastleNone

\* The list generate_moves(All) returns on P holds exactly the legal moves
\* of P, each once.
GeneratesExactlyLegal(P) ==
  LET out == generate_moves(P, GenAll).out
  IN /\ {out[i] : i \in 1 .. Len(out)} = RefLegal(P)
     /\ Len(out) = Cardinality(RefLegal(P))

\* C3: in every reachable position generate_moves(All) returns exactly the
\* set of legal moves (those after which the mover's own king is not
\* attacked), each exactly once.
C3_GeneratorExact == GeneratesExactlyLegal(pos)

\* A move has just given check, and the generator drops pseudo-legal moves
\* of the checked side while keeping at least one evasion.
C3_CheckEvasions ==
  /\ last_op = "make"
  /\ in_check(pos, pos.side)
  /\ Len(generate_moves(pos, GenAll).out) > 0
  /\ Len(generate_moves(pos, GenAll).out) < Len(generate_pseudo_legal(pos))

\* The mailbox, the piece bitboards and the occupancies of P agree.
BoardConsistent(P) ==
  /\ \A s \in Squares : \A c \in 0 .. 1 : \A k \in 0 .. 5 :
       (P.squares[s] = make_piece(c, k)) <=> (s \in P.pieces[c][k])
  /\ \A c \in 0 .. 1 : P.occupied[c] = UNION {P.pieces[c][k] : k \in 0 .. 5}
  /\ P.occupied_all = P.occupied[0] \cup P.occupied[1]

\* C4: after every make and unmake of a legal move, squares[s] holds a piece
\* of colour c and kind k iff bit s is set in pieces[c][k], occupied[c] is
\* the union of pieces[c][k] over the kinds, and occupied_all is the union
\* of the two occupancies.
C4_BoardConsistent == last_op \in {"make", "unmake"} => BoardConsistent(pos)

\* A pawn has just captured onto the last rank and promoted.
C4_PromotionCaptureMade ==
  last_op = "make" /\ move_flag(last_move) = PromotionCapture

\* Exactly one king of each colour stands on the board of P and kings[c] is
\* its square.
KingsTracked(P) ==
  \A c \in Colors :
    /\ Cardinality({s \in Squares : P.squares[s] = make_piece(c, King)}) = 1
    /\ P.kings[color_index(c)] \in Squares
    /\ P.squares[P.kings[color_index(c)]] = make_piece(c, King)

\* C5: in every position reached by legal make/unmake from a root with one
\* king per colour, exactly one king of each colour is on the board and
\* kings[c] is the square of the king of colour c.
C5_KingsTracked == KingsTracked(pos)

\* A king has just moved.
C5_KingMoved ==
  /\ last_op = "make"
  /\ type_of(pos.squares[to_square(last_move)]) = King
  /\ pos.kings[color_index(flip(pos.side))] = to_square(last_move)

\* C6: after every public operation (from_fen of any accepted FEN, make,
\* unmake), if en_passant is set it lies on rank 3 or rank 6 and a pawn of
\* the side that is not to move stands directly behind it (same file, rank
\* 4 or rank 5 respectively).
C6_EnPassantBehindPawn ==
  pos.ep_square # SquareNone =>
    /\ rank_of(pos.ep_square) \in {2, 5}
    /\ pos.squares[IF rank_of(pos.ep_square) = 2 THEN pos.ep_square + 8
                    ELSE pos.ep_square - 8] = make_piece(flip(pos.side), Pawn)

\* C7: for every reachable position P, with either side to move,
\* from_fen(P.to_fen()) yields a Position whose fields all equal P's,
\* zobrist included.
C7_FenRoundTrip ==
  \A strict \in BOOLEAN :
    /\ from_fen(to_fen(pos), strict).ok
    /\ from_fen(to_fen(pos), strict).pos = pos

(***************************************************************************)
(* Properties of search.                                                   *)
(***************************************************************************)
\* The fields of a SearchResult that search reports to its caller.
Reported(res) ==
  [best |-> res.best, pv |-> res.pv, eval |-> res.eval, lines |-> res.lines,
   depth |-> res.depth]

\* C8: when search is aborted (stop flag, hard time or node cap) during an
\* iteration after at least one iteration has fully completed, the returned
\* best move, PV, eval, lines and depth are exactly those recorded at the
\* end of the last fully completed iteration.
C8_AbortKeepsLastCompleted ==
  (pc = "returned" /\ result.aborted /\ hist.completed.depth > 0)
    => Reported(result) = Reported(hist.completed)

\* Every call entered while the stop flag was up is still at its entry
\* checks: it has generated no move and searched no child.
StoppedCallsAtEntry ==
  \A i \in 1 .. Len(stack) : stack[i].entered_stopped => stack[i].site = "entry"

\* C9: once the stop flag is true, every negamax and qsearch call entered
\* afterwards returns at its entry check, and search returns after a
\* bounded number of further node visits with result.aborted = true.
C9_StopFlagEndsSearch ==
  /\ StoppedCallsAtEntry
  /\ hist.visits_after_stop <= MaxSearchPly + 1
  /\ (pc = "returned" /\ stop_flag) => result.aborted

\* C9 as the code has it: a call entered under the flag returns at its
\* entry check, the visits after the flag are bounded, and search returns
\* with result.aborted = true whenever a node was visited under the flag;
\* a flag raised after the last check of the final iteration leaves the
\* full-depth result, not aborted.
C9_StopFlagEndsSearchWhenSeen ==
  /\ StoppedCallsAtEntry
  /\ hist.visits_after_stop <= MaxSearchPly + 1
  /\ (pc = "returned" /\ hist.visits_after_stop > 0) => result.aborted
  /\ (pc = "returned" /\ stop_flag /\ ~result.aborted)
       => result.depth = loc.max_depth /\ hist.completed.depth = loc.max_depth

\* The caller raised the flag in mid-search, a node was entered after that,
\* and search has returned aborted.
C9_StoppedInMidSearch ==
  /\ pc = "returned"
  /\ hist.stop_by = "external"
  /\ hist.visits_after_stop > 0
  /\ result.aborted

\* C10: when the elapsed time passes soft_ms but not hard_ms in the middle
\* of an iteration, that iteration runs to completion and is recorded as
\* completed, and search stops before the next iteration starts.
C10_SoftLimitFinishesIteration ==
  (pc = "returned" /\ hist.stop_by = "soft" /\ hist.soft_in_tree
     /\ elapsed < state.hard_time_ms)
    => /\ hist.completed.depth = hist.soft_iter
       /\ Reported(result) = Reported(hist.completed)

\* C11: the progress callback is invoked exactly once for each
\* iterative-deepening iteration that completes, in strictly increasing depth
\* order, and is not invoked for an iteration that was aborted.
C11_ProgressPerCompletedIteration ==
  /\ \A i \in 1 .. Len(hist.progress) : ~hist.progress[i].aborted
  /\ \A i \in 1 .. Len(hist.progress) - 1 :
       hist.progress[i].depth < hist.progress[i + 1].depth
  /\ pc = "returned" =>
       \A d \in 1 .. hist.completed.depth :
         Cardinality({i \in 1 .. Len(hist.progress) : hist.progress[i].depth = d}) = 1

\* C12: from the moment aborted is set during a search (by the stop flag,
\* the hard time limit or the node cap), that search performs no further
\* transposition-table store, at any ply, and the entries stored by nodes
\* that completed earlier remain unchanged.
C12_NoStoreAfterAbort ==
  /\ []~hist.stored_aborted
  /\ [][(state.aborted \/ state'.aborted) => tt' = tt]_vars

\* The root call is about to leave its move loop in an aborted search, with
\* an entry of an earlier iteration in the table.
C12_AbortedWithEntries ==
  /\ pc = "negamax"
  /\ state.aborted
  /\ hist.stored
  /\ tt_probe(tt, <<>>).hit
  /\ Len(stack) = 1
  /\ stack[1].site = "loop"
  /\ stack[1].wait

\* C13: whenever the root position has at least one legal move, search
\* returns a non-null best move that is a legal move of the root, in every
\* outcome, including when it is aborted before any iteration completes.
C13_BestMoveIsLegalRootMove ==
  (pc = "returned" /\ Len(loc.root_moves) > 0)
    => /\ result.best # MoveNull
       /\ \E i \in 1 .. Len(loc.root_moves) : loc.root_moves[i] = result.best

(***************************************************************************)
(* Properties of the search worker.                                        *)
(***************************************************************************)
\* The commands of a log, in order.
CommandsOf(log) == [i \in 1 .. Len(log) |-> log[i].cmd]

\* C14: the commands pushed by the controller (Start, Stop, Quit) are
\* dequeued by the worker thread in exactly the order they were enqueued,
\* none lost and none duplicated, under every interleaving of the producer
\* and the consumer: what was dequeued is the front of what was enqueued,
\* and the queue holds the rest.
C14_CommandsInFifoOrder ==
  /\ Len(whist.dequeued) <= Len(whist.enqueued)
  /\ whist.dequeued = SubSeq(CommandsOf(whist.enqueued), 1, Len(whist.dequeued))
  /\ QueueContents(queue, queue.tail)
       = SubSeq(CommandsOf(whist.enqueued), Len(whist.dequeued) + 1,
                Len(whist.enqueued))
  /\ \A i, j \in 1 .. Len(whist.enqueued) :
       whist.enqueued[i].cmd.seq = whist.enqueued[j].cmd.seq => i = j

\* More commands than the queue has slots went through it, a Start, a Stop
\* and a Quit among them.
C14_QueueWrapped ==
  /\ Len(whist.dequeued) > QueueCapacity
  /\ \A type \in {"Start", "Stop", "Quit"} :
       \E i \in 1 .. Len(whist.dequeued) : whist.dequeued[i].type = type

\* The controller is inside condition_variable::wait.
InWait == ctl.pc \in {"wi_pred", "wi_wait", "wi_blocked"}

\* C15: wait_idle() returns only when busy is false, and a caller blocked in
\* wait_idle() is always released once the worker sets busy to false at the
\* end of a search, under every interleaving of the waiter's predicate check
\* and sleep with the worker's store to busy and its notify_all.
C15_WaitIdleReleased ==
  /\ [][((CallWaitIdle \/ WaitPredicate) /\ ctl'.pc = "ready") => ~busy]_vars
  /\ (InWait /\ wrk.pc = "w_notify") ~> ~InWait

\* The lines written for search s.
LinesOfSearch(s) == {i \in 1 .. Len(output) : output[i].search = s}

BestmovesOfSearch(s) == {i \in LinesOfSearch(s) : output[i].kind = "bestmove"}

\* C16: for each Start command the worker processes, with I/O bound, every
\* info line produced by that search's progress and currmove callbacks (and
\* by its result) is written before that search's bestmove line, at most one
\* bestmove line is written for it, exactly one once busy has been set to
\* false for it, and so busy becomes false only after the bestmove line.
C16_InfoBeforeBestmove ==
  io_bound =>
    \A s \in 1 .. MaxStarts :
      /\ Cardinality(BestmovesOfSearch(s)) <= 1
      /\ \A i \in BestmovesOfSearch(s) : \A j \in LinesOfSearch(s) : j <= i
      /\ s \in whist.idle_after => Cardinality(BestmovesOfSearch(s)) = 1

\* A search wrote a line through a callback, a line for its result and its
\* bestmove line, and busy was then set to false.
C16_SearchWroteAllLines ==
  /\ io_bound
  /\ 1 \in whist.idle_after
  /\ Cardinality(LinesOfSearch(1)) = 3
  /\ ~busy

\* What belongs to the worker besides the stop flag.
worker_state == <<queue, busy, shutdown_requested, snapshot_vars, output, wrk>>

\* C17: request_stop() called while the worker is idle (busy = false) is a
\* no-op: it enqueues no command and changes no worker state, including the
\* stop flag.
C17_IdleRequestStopNoOp ==
  [][((CallRequestStop \/ RequestStopCheck) /\ ~busy)
       => UNCHANGED <<stop_flag, worker_state, whist>>]_vars

\* C17, as the code has it: request_stop() sets the stop flag whether the
\* worker is busy or not and changes nothing else by that store; when it
\* then finds busy false it returns without enqueuing a command and without
\* changing any worker state.
C17_IdleRequestStopSetsFlagOnly ==
  [][/\ CallRequestStop => (stop_flag' = TRUE /\ UNCHANGED <<worker_state, whist>>)
     /\ (RequestStopCheck /\ ~busy)
          => (ctl'.pc = "ready" /\ UNCHANGED <<stop_flag, worker_state, whist>>)]_vars

\* request_stop() has returned on an idle worker that never had a command:
\* the flag is set, nothing was enqueued.
C17_StoppedWhileIdle ==
  /\ ctl.op = "request_stop"
  /\ ctl.pc = "ready"
  /\ ~busy
  /\ stop_flag
  /\ whist.enqueued = <<>>
  /\ pop_empty(queue)

\* The searches that wrote the fields of a snapshot.
WritersOf(snapshot) ==
  {snapshot[SnapshotFields[i]].search : i \in 1 .. Len(SnapshotFields)}

\* C18: every call to last_snapshot(), at any time and concurrently with
\* the worker, returns either 'no snapshot' or a tuple whose four fields
\* (position, result, limits, stopped) were all written by the same search,
\* namely the most recently finished one: the last search whose tuple the
\* worker had stored (370-377) when the copy was taken, a search that has
\* returned.
C18_SnapshotFromOneSearch ==
  /\ (ctl.op = "last_snapshot" /\ ctl.pc = "ready" /\ ctl.got)
       => /\ WritersOf(ctl.out) = {ctl.latest}
          /\ ctl.latest \in 1 .. whist.returned
  /\ (ctl.op = "last_snapshot" /\ ctl.pc = "ready" /\ ~ctl.got)
       => ctl.out = NoSnapshot
  /\ ctl.pc = "ls_copy" => (has_snapshot /\ WritersOf(last_snapshot) = {whist.stored})

\* last_snapshot() returned the tuple of the first search while the worker
\* was in the handler of the second.
C18_SnapshotDuringSecondSearch ==
  /\ ctl.op = "last_snapshot"
  /\ ctl.pc = "ready"
  /\ ctl.got
  /\ ctl.latest = 1
  /\ wrk.cmd.search = 2
  /\ wrk.pc \in {"w_search", "w_stopped", "w_snap"}

BestmovesWritten == {i \in 1 .. Len(output) : output[i].kind = "bestmove"}

StartsDequeued == {i \in 1 .. Len(whist.dequeued) : whist.dequeued[i].type = "Start"}

\* C19: a Stop or Quit command enqueued while the worker is executing a
\* Start is not dequeued until that search has returned and its bestmove
\* line has been emitted: whenever the worker is at the queue, every Start
\* it dequeued has its bestmove line.  The worker thread never exits in the
\* middle of a search: it exits on a Quit, or without I/O after search has
\* returned.
C19_NoDequeueDuringStart ==
  /\ wrk.pc \in {"pop", "pop_read", "pop_publish", "w_stop"}
       => Cardinality(BestmovesWritten) = Cardinality(StartsDequeued)
  /\ wrk.pc = "exited"
       => \/ wrk.cmd.type = "Quit"
          \/ /\ wrk.cmd.type = "Start"
             /\ ~io_bound
             /\ whist.returned = wrk.cmd.search

\* A Stop and a Quit enqueued while search was running have been dequeued.
C19_QueuedDuringSearchDequeued ==
  \A type \in {"Stop", "Quit"} :
    \E i \in 1 .. Len(whist.dequeued) :
      /\ whist.enqueued[i].in_search
      /\ whist.dequeued[i].type = type

(***************************************************************************)
(* The two paths of make and unmake.                                       *)
(***************************************************************************)
\* The Undo as make fills it before either path runs (lines 741-746).
UndoBefore(P, m) ==
  [key |-> P.zobrist, move |-> m, captured |-> PieceNone,
   castling |-> P.castling, halfmove_clock |-> P.halfmove_clock,
   en_passant |-> P.ep_square]

\* The last operation made a Quiet or DoublePush move to an empty square.
QuietLikeMade ==
  /\ last_op = "make"
  /\ \/ move_flag(last_move) = Quiet
     \/ /\ move_flag(last_move) = DoublePush
        /\ type_of(before.squares[from_square(last_move)]) = Pawn
  /\ before.squares[to_square(last_move)] = PieceNone

\* The position unmake works on once it has flipped the side back.
SideFlippedBack(P) == [P EXCEPT !.side = flip(P.side), !.zobrist = Xor(@, {ZSide})]

\* C20: for every legal Quiet or DoublePush move to an empty square, the
\* position and the Undo that the fused path of make produces equal, in
\* every field (bitboards, occupancies, mailbox, zobrist, castling rights,
\* en-passant square, both clocks, king squares, side), what the general
\* remove / place path produces for the same move; and where unmake takes
\* its fused path (such a move by a piece other than the king), the
\* position it produces equals what its general path produces.
C20_FastPathEqualsGeneral ==
  QuietLikeMade =>
    /\ make_fast(set_en_passant(before, SquareNone), last_move,
                 UndoBefore(before, last_move))
         = make_general(set_en_passant(before, SquareNone), last_move,
                        UndoBefore(before, last_move))
    /\ pos = make_general(set_en_passant(before, SquareNone), last_move,
                          UndoBefore(before, last_move)).pos
    /\ type_of(pos.squares[to_square(last_move)]) # King =>
         unmake_fast(SideFlippedBack(pos), last_move)
           = unmake_general(SideFlippedBack(pos), last_move,
                            undo_stack[Len(undo_stack)].undo)

\* A double push has just set the en-passant square through the fused path.
C20_DoublePushMade ==
  /\ QuietLikeMade
  /\ move_flag(last_move) = DoublePush
  /\ pos.ep_square # SquareNone
  /\ pos.halfmove_clock = 0

(***************************************************************************)
(* Castling rights and the en-passant square after make.                   *)
(***************************************************************************)
\* The four rights, as the bits of the rights byte.
CastlingBits == {CastleWK, CastleWQ, CastleBK, CastleBQ}

\* The rights a byte holds.
RightsOf(rights) == {r \in CastlingBits : HasRight(rights, r)}

\* The home square of the king of a right (e1 or e8).
KingHome(r) == IF r \in {CastleWK, CastleWQ} THEN 4 ELSE 60

\* The home square of the rook of a right.
RookHome(r) ==
  IF r = CastleWK THEN H1 ELSE IF r = CastleWQ THEN A1
  ELSE IF r = CastleBK THEN H8 ELSE A8

\* The rights that belong to a colour.
RightsOfColor(c) ==
  IF c = White THEN {CastleWK, CastleWQ} ELSE {CastleBK, CastleBQ}

\* The rights that a move from `from` to `to` by a piece of type
\* `origin_type` of colour `c` takes away.
RightsLostBy(from, to, origin_type, c) ==
  {r \in CastlingBits : KingHome(r) \in {from, to} \/ RookHome(r) \in {from, to}}
    \cup (IF origin_type = King THEN RightsOfColor(c) ELSE {})

AdjacentOnRank(sq) ==
  {t \in Squares : rank_of(t) = rank_of(sq)
                    /\ (file_of(t) = file_of(sq) + 1 \/ file_of(t) = file_of(sq) - 1)}

\* C22: after make of a DoublePush, en_passant is set only if a pawn of the
\* side now to move stands on a file adjacent to the pushed pawn on the same
\* rank; otherwise en_passant is None.
C22_EnPassantOnlyWithAdjacentPawn ==
  (last_op = "make" /\ move_flag(last_move) = DoublePush /\ pos.ep_square # SquareNone)
    => \E t \in AdjacentOnRank(to_square(last_move)) :
         pos.squares[t] = make_piece(pos.side, Pawn)

(***************************************************************************)
(* Properties of the transposition table.                                  *)
(***************************************************************************)
\* The slots of the bucket of a key.
BucketSlots(t, key) ==
  {bucket_index(t, key) * kBucketSize + slot : slot \in 0 .. kBucketSize - 1}

\* No slot of the key's bucket holds the key.
KeyAbsent(t, key) == \A i \in BucketSlots(t, key) : t.entries[i].key # key

\* Every slot of the key's bucket holds an entry.
BucketFull(t, key) == \A i \in BucketSlots(t, key) : t.entries[i].key # 0

\* C23: immediately after store(K, e) for any non-zero key K, probe(K) hits
\* and returns e's best_move, score, static_eval, depth and bound, with
\* generation equal to the table's current generation, whether K was absent
\* before, already present, or the bucket was full.
C23_ProbeAfterStore ==
  (tt_op.op = "store" /\ tt_op.key # 0) =>
    /\ probe(table, tt_op.key).hit
    /\ probe(table, tt_op.key).out
         = [tt_op.in EXCEPT !.key = tt_op.key, !.generation = table.generation]

\* A key that was already stored has just been stored again with another
\* entry, under another generation than the one it was stored under.
C23_StoredAgainInPlace ==
  /\ tt_op.op = "store"
  /\ tt_op.key # 0
  /\ ~KeyAbsent(tt_op.before, tt_op.key)
  /\ probe(tt_op.before, tt_op.key).out.score # tt_op.in.score
  /\ probe(tt_op.before, tt_op.key).out.generation # table.generation
  /\ tt_op.in.generation # table.generation

\* (age << 8) + (255 - depth) of an entry, age counted in 8 bits.
ClaimedMetric(generation, entry) ==
  ((generation - entry.generation + 256) % 256) * 256 + (255 - entry.depth)

\* The table is the table before, but for slot i, which holds the entry.
OnlySlotWritten(t, old, i, key, in) ==
  t.entries = [old.entries EXCEPT ![i] = [in EXCEPT !.key = key,
                                                    !.generation = old.generation]]

\* C24: when store(K, .) finds no slot holding K in K's bucket: if some
\* slot is empty (key 0), an empty slot is written and no existing entry is
\* evicted; otherwise a slot maximising (age << 8) + (255 - depth), with
\* age = (current_generation - slot.generation) mod 256, is overwritten and
\* the other three slots are unchanged.
C24_ReplacementVictim ==
  (tt_op.op = "store" /\ KeyAbsent(tt_op.before, tt_op.key)) =>
    \E i \in BucketSlots(tt_op.before, tt_op.key) :
      /\ OnlySlotWritten(table, tt_op.before, i, tt_op.key, tt_op.in)
      /\ IF BucketFull(tt_op.before, tt_op.key)
         THEN \A j \in BucketSlots(tt_op.before, tt_op.key) :
                ClaimedMetric(tt_op.before.generation, tt_op.before.entries[j])
                  <= ClaimedMetric(tt_op.before.generation, tt_op.before.entries[i])
         ELSE tt_op.before.entries[i].key = 0

\* A new key has just been stored in a full bucket, over an entry that was
\* older than a shallower one; the age wrapped around 255.
C24_OlderEvictedBeforeShallower ==
  /\ tt_op.op = "store"
  /\ KeyAbsent(tt_op.before, tt_op.key)
  /\ BucketFull(tt_op.before, tt_op.key)
  /\ \E i, j \in BucketSlots(tt_op.before, tt_op.key) :
       /\ table.entries[i] # tt_op.before.entries[i]
       /\ tt_op.before.entries[j].depth < tt_op.before.entries[i].depth
       /\ tt_op.before.entries[i].generation > tt_op.before.generation
       /\ tt_op.before.entries[j].generation = tt_op.before.generation

(***************************************************************************)
(* Properties of the lines search reports.                                 *)
(***************************************************************************)
\* The best moves of the lines are pairwise distinct.
DistinctBest(lines) ==
  \A i, j \in 1 .. Len(lines) : i # j => lines[i].best # lines[j].best

\* C25: in every SearchResult delivered by a search with multipv = k, the
\* snapshot handed to the progress callback (which `result` holds from that
\* call on) and the result returned, the best moves of the reported lines
\* are pairwise distinct.
C25_LinesHaveDistinctBest ==
  (pc = "returned" \/ hist.progress # <<>>) => DistinctBest(result.lines)

\* A search with two lines has returned from its second iteration or later.
C25_TwoLinesReturned ==
  /\ pc = "returned"
  /\ Len(result.lines) = 2
  /\ result.depth >= 2
  /\ ~state.aborted

(***************************************************************************)
(* Properties of the time budget.                                          *)
(***************************************************************************)
\* The clock and the increment of the side to move in the last call.
TimeLeft == IF budget_call.stm = White THEN budget_call.limits.wtime_ms
            ELSE budget_call.limits.btime_ms

IncrementOfMover == IF budget_call.stm = White THEN budget_call.limits.winc_ms
                    ELSE budget_call.limits.binc_ms

\* The last call had no movetime and a clock for the moving side.
ClockCall ==
  /\ budget_call.called
  /\ ~budget_call.limits.infinite
  /\ budget_call.limits.movetime_ms < 0
  /\ TimeLeft >= 0

\* The budget that follows from a base allocation, by the rest of the
\* function.
BudgetFromBase(base) ==
  clock_budget(allocate_of(base + Max2(TruncDiv(IncrementOfMover, 2), 0),
                           max_allowed_of(TimeLeft), TimeLeft),
               TimeLeft)

\* C26: when no movetime is given and the moving side has a clock, the
\* per-move base allocation is time_left / max(movestogo, 20) for every
\* movestogo value, including 0 < movestogo < 20: the budget is the one
\* that follows from that base.
C26_BaseDividesByAtLeastTwenty ==
  ClockCall =>
    budget_call.budget
      = BudgetFromBase(TimeLeft \div Max2(budget_call.limits.movestogo, 20))

\* C26, as the code has it: the base allocation is time_left / movestogo
\* when movestogo is positive, and time_left / 20 when it is not given.
C26_BaseDividesByMovesToGo ==
  ClockCall =>
    budget_call.budget
      = BudgetFromBase(IF budget_call.limits.movestogo > 0
                       THEN TimeLeft \div budget_call.limits.movestogo
                       ELSE TimeLeft \div 20)

\* A call with a clock and fewer than twenty moves to go, where the base
\* decides the budget.
C26_FewMovesToGo ==
  /\ ClockCall
  /\ budget_call.limits.movestogo = 5
  /\ TimeLeft = 60000
  /\ budget_call.budget.soft_ms = 12000 + Max2(TruncDiv(IncrementOfMover, 2), 0)

\* C27: for every non-infinite limits with a clock for the moving side
\* (time_left >= 0, movetime < 0) and any increment and movestogo, the
\* budget satisfies 0 <= soft_ms <= hard_ms <= time_left and
\* hard_ms <= soft_ms + 50.
C27_BudgetWithinClock ==
  ClockCall =>
    /\ 0 <= budget_call.budget.soft_ms
    /\ budget_call.budget.soft_ms <= budget_call.budget.hard_ms
    /\ budget_call.budget.hard_ms <= TimeLeft
    /\ budget_call.budget.hard_ms <= budget_call.budget.soft_ms + 50

\* A call whose clock is below the minimum move time, with an increment
\* larger than the clock: the budget is the whole clock.
C27_ClockBelowMinimum ==
  /\ ClockCall
  /\ TimeLeft = 7
  /\ IncrementOfMover = 1000
  /\ budget_call.budget = [soft_ms |-> 7, hard_ms |-> 7]

\* The last call had no movetime, no clock for the moving side and a
\* positive increment.
IncrementOnlyCall ==
  /\ budget_call.called
  /\ ~budget_call.limits.infinite
  /\ budget_call.limits.movetime_ms < 0
  /\ TimeLeft < 0
  /\ IncrementOfMover > 0

\* C28: with no clock for the moving side (time_left < 0), no movetime and
\* a positive increment, the soft budget is exactly increment/2 for every
\* positive increment.
C28_SoftIsHalfIncrement ==
  IncrementOnlyCall => budget_call.budget.soft_ms = IncrementOfMover \div 2

\* C28, as the code has it: the soft budget is increment/2 but not less
\* than 10 ms, and the hard budget is 50 ms more.
C28_SoftIsHalfIncrementAtLeastTen ==
  IncrementOnlyCall =>
    /\ budget_call.budget.soft_ms
         = (IF IncrementOfMover \div 2 < 10 THEN 10 ELSE IncrementOfMover \div 2)
    /\ budget_call.budget.hard_ms = budget_call.budget.soft_ms + 50

\* A call with an increment only, whose half lies below the minimum.
C28_SmallIncrementOnly ==
  /\ IncrementOnlyCall
  /\ IncrementOfMover = 19
  /\ budget_call.budget.soft_ms = 10

(***************************************************************************)
(* Properties of the search stack.                                         *)
(***************************************************************************)
\* set_static_eval was the last call, on the frame of this ply.
EvalJustSet == stack_call.op = "set_static_eval"

\* C29: after set_static_eval(ply, e): if ply >= 2 and the frame at
\* ply - 2 holds a static eval p, then improving(ply) = (e >= p - 30);
\* otherwise improving(ply) equals the improving flag of the frame at
\* ply - 1 (false at ply 0).
C29_ImprovingAfterSetStaticEval ==
  EvalJustSet =>
    /\ frames_[stack_call.ply].has_static_eval
    /\ frames_[stack_call.ply].static_eval = stack_call.eval
    /\ is_improving(frames_, stack_call.ply)
         = (IF stack_call.ply >= 2 /\ frames_[stack_call.ply - 2].has_static_eval
            THEN stack_call.eval >= frames_[stack_call.ply - 2].static_eval - 30
            ELSE IF stack_call.ply = 0 THEN FALSE
            ELSE frames_[stack_call.ply - 1].improving)

\* An eval exactly 30 below the one of two plies above counts as improving.
C29_ImprovingAtTheSlack ==
  /\ EvalJustSet
  /\ stack_call.ply = 2
  /\ frames_[0].has_static_eval
  /\ frames_[0].static_eval = 50
  /\ stack_call.eval = 20
  /\ frames_[2].improving

(***************************************************************************)
(* Properties of the history update.                                       *)
(***************************************************************************)
\* The last step of the loop was a beta cutoff by a quiet move.
QuietCutoff == node.cut /\ is_quiet_move(node.move)

\* The entry of a move for the moving side, before and after the last step.
EntryBefore(move) == HistoryTable_get(node.values_before, node.moving_side, move)

EntryAfter(move) == HistoryTable_get(history, node.moving_side, move)

\* Every quiet tried earlier that failed to raise alpha has lost 128 * d.
FailedQuietsPenalized ==
  \A i \in 1 .. Len(node.failed_before) :
    EntryAfter(node.failed_before[i])
      = clamp(EntryBefore(node.failed_before[i]) - 128 * node.depth, -32000, 32000)

\* C30: when a quiet move causes a beta cutoff at a node searched at depth
\* d, its (side, from, to) history entry increases by exactly 128*d*d
\* (before clamping to +-32000), and each quiet move tried earlier at that
\* node that failed to raise alpha decreases by exactly 128*d.
C30_CutoffBonusOnce ==
  QuietCutoff =>
    /\ EntryAfter(node.move)
         = clamp(EntryBefore(node.move) + 128 * node.depth * node.depth,
                 -32000, 32000)
    /\ FailedQuietsPenalized

\* C30, as the code has it: the cutting quiet move gets 128*d*d twice,
\* once for raising alpha and once for reaching beta, each addition
\* clamped to +-32000; each quiet that failed earlier loses 128*d; no
\* other entry changes.
C30_CutoffBonusTwice ==
  QuietCutoff =>
    /\ EntryAfter(node.move)
         = clamp(clamp(EntryBefore(node.move) + 128 * node.depth * node.depth,
                       -32000, 32000)
                   + 128 * node.depth * node.depth, -32000, 32000)
    /\ FailedQuietsPenalized
    /\ \A i \in DOMAIN history :
         i \notin {HistoryTable_index(node.moving_side, m) :
                     m \in {node.move} \cup {node.failed_before[k] :
                                                k \in 1 .. Len(node.failed_before)}}
           => history[i] = node.values_before[i]

\* A quiet move cuts off at depth 3 after another quiet failed.
C30_CutoffAfterFailedQuiet ==
  /\ QuietCutoff
  /\ node.depth = 3
  /\ Len(node.failed_before) = 1
  /\ EntryBefore(node.move) = 0
  /\ EntryAfter(node.move) = 2304
  /\ EntryAfter(node.failed_before[1]) = EntryBefore(node.failed_before[1]) - 384

(***************************************************************************)
(* Properties of the extension of a move.                                  *)
(***************************************************************************)
\* The number of extension conditions that hold for the move made.
ExtensionConditions ==
  (IF ext_call.in.singular_hit THEN 1 ELSE 0)
  + (IF IsRecapture(ext_call.in) THEN 1 ELSE 0)
  + (IF IsCheckExtension(ext_call.in) THEN 1 ELSE 0)

\* C31: in the main move loop the extension applied to a move equals the
\* number of applicable extension conditions (singular TT move, recapture,
\* check-giving move), capped at 2, so that
\* next_depth = depth - 1 + min(2, count).
C31_ExtensionCountsConditions ==
  ext_call.made =>
    /\ ext_call.extension = Min2(2, ExtensionConditions)
    /\ ext_call.next_depth = ext_call.in.depth - 1 + Min2(2, ExtensionConditions)

(***************************************************************************)
(* Properties of a stop requested after a start.                           *)
(***************************************************************************)
\* The controller's last call is request_stop, made after its last
\* start_search returned; the call has stored the stop flag.
StopRequestedAfterStart == ctl.op = "request_stop" /\ ctl.starts >= 1

\* The worker runs the search of the controller's last start_search.
SearchingLastStart == wrk.pc = "w_search" /\ wrk.cmd.search = ctl.starts

\* C32: if the controller calls request_stop() at any time after
\* start_search(p, l) has returned, the search for (p, l) is aborted,
\* including when request_stop() runs before the worker has dequeued the
\* Start command: while that search runs, it finds the stop flag raised,
\* which is what ends a search and lets the worker become idle.
C32_StopReachesSearch ==
  (StopRequestedAfterStart /\ SearchingLastStart) => stop_flag

(***************************************************************************)
(* Properties of the root position of a search.                            *)
(***************************************************************************)
\* C33: when search() returns, whether normally or aborted by stop flag,
\* time or node cap, the root Position passed to it has exactly the field
\* values it had at the call: every make or make_null performed inside the
\* search is matched by its unmake on every exit path.
C33_RootRestored ==
  /\ walk.pc = "returned" => pos = walk.root
  /\ (walk.pc = "running" /\ undo_stack = <<>>) => pos = walk.root

\* An aborted search has returned after a null move, a capture and moves
\* taken back under the abort.
C33_AbortedSearchReturned ==
  /\ walk.pc = "returned"
  /\ walk.aborted
  /\ {"null", "capture", "aborted_unmake"} \subseteq walk.seen

(***************************************************************************)
(* Properties of the aspiration loop.                                      *)
(***************************************************************************)
\* C35: for any sequence of scores in [-30000, 30000] returned by the root
\* negamax calls, the aspiration re-search loop of one MultiPV slot at one
\* depth performs only finitely many re-searches: repeated fail-lows and
\* fail-highs widen the window until a full-window search is made, whose
\* result is accepted.  A loop that has started ends.
C35_AspirationLoopEnds == (asp.pc = "loop") ~> (asp.pc = "done")

(***************************************************************************)
(* Properties of the worker's busy flag.                                   *)
(***************************************************************************)
\* A Start command is in the queue, enqueued and not yet dequeued.
StartQueued ==
  \E i \in 1 .. Len(QueueContents(queue, queue.tail)) :
     QueueContents(queue, queue.tail)[i].type = "Start"

\* The worker is inside the call of search.
SearchInProgress == wrk.pc = "w_search"

\* C34: for any sequence of start_search and request_stop calls by the
\* controller, whenever busy is false there is no unprocessed Start command
\* in the queue and no search in progress.
C34_IdleMeansNoSearchPending == ~busy => (~StartQueued /\ ~SearchInProgress)

UnreadSlots(q) ==
  {(q.tail + i) % QueueCapacity : i \in 0 .. Len(QueueContents(q, q.tail)) - 1}

\* C40: under any interleaving of one producer and one consumer, the
\* command queue holds at most capacity - 1 commands (31 of the 32 slots in
\* the code), push on a full queue fails without overwriting an unread
\* command: no step changes an unread slot, and pop on an empty queue fails
\* without returning a stale command: the consumer reads a slot only while
\* the queue is not empty.
C40_QueueBoundedAndGuarded ==
  /\ [](/\ Len(QueueContents(queue, queue.tail)) <= QueueCapacity - 1
        /\ (wrk.pc \in {"pop_read", "pop_publish"} => queue.tail # queue.head))
  /\ [][\A slot \in UnreadSlots(queue) :
          queue'.buffer[slot] = queue.buffer[slot]]_vars

\* The producer is held at a full queue whose head has wrapped around, the
\* consumer having dequeued commands before.
C40_PushHeldAtFullQueue ==
  /\ ctl.pc = "push"
  /\ push_full(queue)
  /\ Len(QueueContents(queue, queue.tail)) = QueueCapacity - 1
  /\ queue.head < queue.tail
  /\ Len(whist.dequeued) >= 1

(***************************************************************************)
(* Properties of the budget that means no time limit.                      *)
(***************************************************************************)
\* The last call had limits that are not infinite.
TimedCall == budget_call.called /\ ~budget_call.limits.infinite

\* search, lines 1194-1196: the budget search takes for no time limit.
NoTimeLimit(budget) == budget.hard_ms <= 0

\* C39 as stated: for non-infinite limits that specify a movetime or a clock
\* for the moving side, compute_time_budget never returns the {0, 0} budget
\* that the search interprets as no time limit, including when the remaining
\* clock is 0.
C39_TimedBudgetNeverZero ==
  (TimedCall /\ (budget_call.limits.movetime_ms >= 0 \/ TimeLeft >= 0)) =>
    (budget_call.budget # NoBudget /\ ~NoTimeLimit(budget_call.budget))

\* C39, amended: for non-infinite limits that specify a movetime or a
\* positive clock for the moving side, compute_time_budget never returns the
\* {0, 0} budget that the search interprets as no time limit; when no
\* movetime is given and the remaining clock is 0 it returns {0, 0}.
C39_BudgetZeroOnlyAtClockZero ==
  /\ (TimedCall /\ (budget_call.limits.movetime_ms >= 0 \/ TimeLeft > 0)) =>
       (budget_call.budget # NoBudget /\ ~NoTimeLimit(budget_call.budget))
  /\ (TimedCall /\ budget_call.limits.movetime_ms < 0 /\ TimeLeft = 0) =>
       budget_call.budget = NoBudget

\* A call with one millisecond on the clock and no increment: the budget is
\* that millisecond.
C39_OneMillisecondLeft ==
  /\ TimedCall
  /\ budget_call.limits.movetime_ms < 0
  /\ TimeLeft = 1
  /\ IncrementOfMover = 0
  /\ budget_call.budget = [soft_ms |-> 1, hard_ms |-> 1]

(***************************************************************************)
(* Properties of probe.                                                    *)
(***************************************************************************)
\* C38: probe(K) reports a hit only if an entry was stored under K earlier
\* and has not been evicted since; on a table where K was never stored it
\* reports a miss, for every key K (tt_op.live holds the keys stored and
\* not overwritten since).
C38_HitOnlyIfStored ==
  \A key \in 0 .. MaxKey : probe(table, key).hit => key \in tt_op.live

(***************************************************************************)
(* Castling rights and the pieces they are about.                          *)
(***************************************************************************)
\* The colour a right belongs to.
ColorOfRight(r) == IF r \in {CastleWK, CastleWQ} THEN White ELSE Black

\* Each right that is set has the king and the rook of its colour on their
\* home squares.
RightsHavePieces(P) ==
  \A r \in RightsOf(P.castling) :
     /\ P.squares[KingHome(r)] = make_piece(ColorOfRight(r), King)
     /\ P.squares[RookHome(r)] = make_piece(ColorOfRight(r), Rook)

\* The root the moves on the undo stack were made from.
RootOfLine == IF undo_stack = <<>> THEN pos ELSE undo_stack[1].before

\* The right a castling move uses.
RightOfCastle(move, side) ==
  IF move_flag(move) = KingCastle
  THEN (IF side = White THEN CastleWK ELSE CastleBK)
  ELSE (IF side = White THEN CastleWQ ELSE CastleBQ)

\* The last operation made a castling move.
CastleMade == last_op = "make" /\ move_flag(last_move) \in {KingCastle, QueenCastle}

\* C37: in every position reached by generated moves from a root in which
\* each set castling right has its king and rook on their home squares,
\* each castling right that is still set has the king and the corresponding
\* rook of that colour on their home squares, so an emitted castling move
\* always moves that king and that rook: after it the king stands on the
\* move's target and the rook beside it, and both home squares are empty.
C37_RightsHavePiecesAtHome ==
  RightsHavePieces(RootOfLine) =>
    /\ RightsHavePieces(pos)
    /\ CastleMade =>
         /\ HasRight(before.castling, RightOfCastle(last_move, before.side))
         /\ from_square(last_move) = KingHome(RightOfCastle(last_move, before.side))
         /\ before.squares[from_square(last_move)] = make_piece(before.side, King)
         /\ before.squares[RookHome(RightOfCastle(last_move, before.side))]
              = make_piece(before.side, Rook)
         /\ pos.squares[to_square(last_move)] = make_piece(before.side, King)
         /\ pos.squares[(from_square(last_move) + to_square(last_move)) \div 2]
              = make_piece(before.side, Rook)
         /\ pos.squares[KingHome(RightOfCastle(last_move, before.side))] = PieceNone
         /\ pos.squares[RookHome(RightOfCastle(last_move, before.side))] = PieceNone

\* Black has just castled after White moved the rook of h1: of the four
\* rights of the root only White's queen-side right is left.
C37_CastledAfterRookMove ==
  /\ CastleMade
  /\ before.side = Black
  /\ Len(undo_stack) = 2
  /\ RightsOf(RootOfLine.castling) = CastlingBits
  /\ RightsOf(pos.castling) = {CastleWQ}

====
